---- MODULE Spec2Model ----
(***************************************************************************)
(* Model of the Mantik full-text search engine (src/js/search-index.js)    *)
(* and of the callers that drive it.  JavaScript strings are sequences of  *)
(* one-character strings; a missing or empty string is the empty sequence  *)
(* (both are falsy in the code).  A JavaScript Map is a sequence of        *)
(* entries in insertion order, which is the order Map.forEach visits.      *)
(***************************************************************************)
EXTENDS Integers, Sequences, FiniteSets, TLC

(***************************************************************************)
(* Bounds of the model                                                     *)
(***************************************************************************)
\* number of buildIndex invocations in one behaviour
MaxBuilds == 2
\* length of the texts passed to addTerm
MaxTextLen == 3
\* number of term occurrences stored by successive addTerm calls
MaxOccurrences == 2
\* length of the strings passed to levenshteinDistance
MaxStrLen == 3
\* number of timeouts handleSearchInput sets in one behaviour
MaxTimers == 3

(***************************************************************************)
(* Characters and the tokenizer                                            *)
(***************************************************************************)
UpperChars == <<"A","B","C","D","E","F","G","H","I","J","K","L","M",
                "N","O","P","Q","R","S","T","U","V","W","X","Y","Z">>
LowerChars == <<"a","b","c","d","e","f","g","h","i","j","k","l","m",
                "n","o","p","q","r","s","t","u","v","w","x","y","z">>
DigitChars == {"0","1","2","3","4","5","6","7","8","9"}
SpaceChars == {" ", "\t", "\n"}

Range(s) == { s[i] : i \in DOMAIN s }

\* String.prototype.toLowerCase, one character
ToLowerChar(c) ==
    IF \E i \in DOMAIN UpperChars : UpperChars[i] = c
    THEN LowerChars[CHOOSE i \in DOMAIN UpperChars : UpperChars[i] = c]
    ELSE c

\* String.prototype.toLowerCase
ToLowerCase(s) == [i \in DOMAIN s |-> ToLowerChar(s[i])]

\* the regular expression class \w
IsWordChar(c) == c \in Range(UpperChars) \cup Range(LowerChars) \cup DigitChars \cup {"_"}

\* the regular expression class \s
IsSpaceChar(c) == c \in SpaceChars

\* text.replace(/<[^>]*>/g, ' '): each "<", up to the first ">" after it,
\* becomes one space; a "<" with no ">" after it stays
RECURSIVE StripTags(_)
StripTags(s) ==
    IF s = <<>> THEN <<>>
    ELSE IF Head(s) = "<" /\ \E j \in 2..Len(s) : s[j] = ">"
         THEN LET j == CHOOSE k \in 2..Len(s) :
                           s[k] = ">" /\ \A m \in 2..(k-1) : s[m] # ">"
              IN <<" ">> \o StripTags(SubSeq(s, j + 1, Len(s)))
         ELSE <<Head(s)>> \o StripTags(Tail(s))

\* .replace(/[^\w\s]/g, ' ')
ReplaceNonWord(s) ==
    [i \in DOMAIN s |-> IF IsWordChar(s[i]) \/ IsSpaceChar(s[i]) THEN s[i] ELSE " "]

\* .split(/\s+/).filter(word => word.length > 0): the maximal runs of
\* non-space characters, in order
RECURSIVE SplitWords(_, _)
SplitWords(s, cur) ==
    IF s = <<>> THEN (IF cur = <<>> THEN <<>> ELSE <<cur>>)
    ELSE IF IsSpaceChar(Head(s))
         THEN (IF cur = <<>> THEN <<>> ELSE <<cur>>) \o SplitWords(Tail(s), <<>>)
         ELSE SplitWords(Tail(s), Append(cur, Head(s)))

\* tokenize without .toLowerCase()
TokenizeKeepCase(text) == SplitWords(ReplaceNonWord(StripTags(text)), <<>>)

\* SearchIndex.tokenize
Tokenize(text) == SplitWords(ReplaceNonWord(ToLowerCase(StripTags(text))), <<>>)

\* String.prototype.trim().length === 0
IsBlank(s) == \A i \in DOMAIN s : IsSpaceChar(s[i])

\* String.prototype.startsWith
StartsWith(s, p) == Len(p) <= Len(s) /\ SubSeq(s, 1, Len(p)) = p

\* String.prototype.includes
Includes(s, p) ==
    \E i \in 0..(Len(s) - Len(p)) : SubSeq(s, i + 1, i + Len(p)) = p

(***************************************************************************)
(* Inputs: the content files the loader can return, the documents the      *)
(* application already holds, and the configuration trees                  *)
(***************************************************************************)
\* null, the default of sectionIndex and itemIndex; every index the code
\* stores is >= 0
NULL == -1

\* a content block of a document: missing fields are empty
Block(title, content, code, tabs, items) ==
    [title |-> title, content |-> content, code |-> code, tabs |-> tabs, items |-> items]
Tab(code, label) == [code |-> code, label |-> label]
\* a list item; str is typeof item === 'string'
Item(str, text) == [str |-> str, text |-> text]

T_intro == <<"I","n","t","r","o">>
T_loop  == <<"L","o","o","p">>
T_home  == <<"H","o","m","e">>
T_aloop == <<"a"," ","l","o","o","p">>
T_for   == <<"F","o","r">>
T_go    == <<"g","o">>
T_up    == <<"u","p">>
T_java  == <<"J","a","v","a">>
T_lp    == <<"l","o","o","p">>
T_gogo  == <<"G","o"," ","g","o">>
\* the documents of Scenario A
T_doc1title ==
    <<"I","n","t","r","o","d","u","c","t","i","o","n"," ","t","o"," ","L","o","o","p",
      "s">>
T_doc1content ==
    <<"A"," ","f","o","r"," ","l","o","o","p"," ","r","e","p","e","a","t","s"," ","c","o",
      "d","e">>
T_doc2title == <<"F","u","n","c","t","i","o","n","s"," ","B","a","s","i","c","s">>
T_doc2content ==
    <<"A"," ","f","u","n","c","t","i","o","n"," ","i","s"," ","a"," ","b","l","o","c","k",
      " ","o","f"," ","c","o","d","e">>

\* what loadContentFile(file) resolves to when the fetch succeeds
ContentFiles ==
    [f \in {"intro.json", "loop.json", "sec.json", "rep.json",
             "doc1.json", "doc2.json"} |->
        CASE f = "intro.json" ->
                [title |-> T_intro,
                 sections |-> << Block(<<>>, T_aloop, <<>>, <<>>, <<>>) >>]
          [] f = "loop.json" ->
                [title |-> T_loop,
                 sections |-> << Block(T_for, T_lp, T_go, << Tab(T_up, T_java) >>,
                                       << Item(TRUE, T_lp), Item(FALSE, <<>>) >>) >>]
          [] f = "sec.json" ->
                [title |-> <<>>, sections |-> <<>>]
          [] f = "rep.json" ->
                [title |-> T_gogo, sections |-> <<>>]
          [] f = "doc1.json" ->
                [title |-> T_doc1title,
                 sections |-> << Block(<<>>, T_doc1content, <<>>, <<>>, <<>>) >>]
          [] f = "doc2.json" ->
                [title |-> T_doc2title,
                 sections |-> << Block(<<>>, T_doc2content, <<>>, <<>>, <<>>) >>] ]

Id_d1 == <<"d","1">>
Id_d2 == <<"d","2">>
Id_d3 == <<"d","3">>
Id_d4 == <<"d","4">>
Id_doc1 == <<"D","o","c","1">>
Id_doc2 == <<"D","o","c","2">>
Id_s1 == <<"s","1">>
Id_s2 == <<"s","2">>
Id_hm == <<"h","m">>
Id_g1 == <<"g","1">>
Id_c1 == <<"c","1">>
Id_c2 == <<"c","2">>

\* appState.tabData: the documents the application has already loaded
TabData == [id \in {Id_hm} |-> [title |-> T_home, sections |-> <<>>]]

\* a leaf document reference {id, file, label}; file "" is a missing file
Leaf(id, file, label) == [id |-> id, file |-> file, label |-> label]
\* a group or child node
Node(id, items, children) == [id |-> id, items |-> items, children |-> children]
\* a section of the main configuration; intro is <<>> or one leaf
Section(id, file, intro, groups, children, items) ==
    [id |-> id, file |-> file, intro |-> intro, groups |-> groups,
     children |-> children, items |-> items]

L_d1 == Leaf(Id_d1, "intro.json", <<"O","n","e">>)
L_d2 == Leaf(Id_d2, "loop.json", <<"T","w","o">>)
L_d3 == Leaf(Id_d3, "", <<"N","o">>)
L_d4 == Leaf(Id_d4, "rep.json", <<>>)
L_doc1 == Leaf(Id_doc1, "doc1.json", <<>>)
L_doc2 == Leaf(Id_doc2, "doc2.json", <<>>)
\* a null entry of an items array, written as the leaf of this id: reading
\* item.id of it throws a TypeError
Id_null == <<"n","u","l","l">>
NullItem == Leaf(Id_null, "", <<>>)

\* ten leaves t0..t9 that share two content files
TenLeaves ==
    [k \in 1..10 |->
        Leaf(<<"t", <<"0","1","2","3","4","5","6","7","8","9">>[k]>>,
             IF k % 2 = 1 THEN "intro.json" ELSE "loop.json", <<>>)]

\* the configuration trees loadMainConfig can return (mainConfig.sections,
\* in key order)
ConfigNames == {"flat", "deep", "items", "mixed", "empty", "twice", "scenarioA",
                "broken"}
AllConfigNames == ConfigNames \cup {"ten"}
Configs ==
    [c \in AllConfigNames |->
        CASE c = "flat" ->
                << Section(Id_s1, "", <<>>,
                           << Node(Id_g1, << L_d1, L_d2 >>, <<>>) >>, <<>>, <<>>) >>
          [] c = "deep" ->
                << Section(Id_s1, "", << L_d1 >>,
                           << Node(Id_g1, <<>>,
                                << Node(Id_c1, <<>>,
                                     << Node(Id_c2, << L_d2 >>, <<>>) >>) >>) >>,
                           <<>>, <<>>) >>
          [] c = "items" ->
                << Section(Id_s1, "sec.json", <<>>, <<>>, <<>>, << L_d1 >>),
                   Section(Id_hm, "home.json", <<>>, <<>>, <<>>, <<>>) >>
          [] c = "mixed" ->
                << Section(Id_s2, "sec.json", <<>>,
                           << Node(Id_g1, << L_d2 >>, <<>>) >>,
                           << Node(Id_c1, << L_d3 >>, <<>>) >>, <<>>) >>
          [] c = "empty" -> <<>>
          [] c = "twice" ->
                << Section(Id_s1, "", <<>>,
                           << Node(Id_g1, << L_d4 >>, <<>>) >>,
                           << Node(Id_c1, << L_d4 >>, <<>>) >>, <<>>) >>
          [] c = "scenarioA" ->
                << Section(Id_s1, "", <<>>,
                           << Node(Id_g1, << L_doc1, L_doc2 >>, <<>>) >>, <<>>, <<>>) >>
          [] c = "broken" ->
                << Section(Id_s1, "", <<>>,
                           << Node(Id_g1, << L_d1, NullItem, L_d2 >>, <<>>) >>,
                           <<>>, <<>>) >>
          [] c = "ten" ->
                << Section(Id_s1, "", <<>>, << Node(Id_g1, TenLeaves, <<>>) >>,
                           <<>>, <<>>) >> ]

(***************************************************************************)
(* The builder's walk of the configuration tree                            *)
(***************************************************************************)
RECURSIVE SumSeq(_)
SumSeq(s) == IF s = <<>> THEN 0 ELSE Head(s) + SumSeq(Tail(s))

RECURSIVE Concat(_)
Concat(ss) == IF ss = <<>> THEN <<>> ELSE Head(ss) \o Concat(Tail(ss))

\* SearchIndex.countDocuments, one section
CountSection(s) ==
    (IF s.file # "" THEN 1 ELSE 0)
    + (IF s.intro # <<>> THEN 1 ELSE 0)
    + SumSeq([g \in DOMAIN s.groups |->
                Len(s.groups[g].items)
                + SumSeq([c \in DOMAIN s.groups[g].children |->
                            Len(s.groups[g].children[c].items)])])
    + SumSeq([c \in DOMAIN s.children |-> Len(s.children[c].items)])

\* SearchIndex.countDocuments
CountDocuments(sections) == SumSeq([i \in DOMAIN sections |-> CountSection(sections[i])])

\* one call of indexDocument the walk makes: its arguments, and the place
\* (ref) of the document reference in the tree
Visit(docId, file, label, sectionId, groupId, ref) ==
    [docId |-> docId, file |-> file, label |-> label, sectionId |-> sectionId,
     groupId |-> groupId, ref |-> ref]

\* places in the tree: <<section, 1>> the section's own file, <<section, 2>>
\* its intro, then 3, g for groups[g], 4, c for children[c], 5, k for items[k]
F_file == 1
F_intro == 2
F_groups == 3
F_children == 4
F_items == 5

\* SearchIndex.indexGroup: the items of the group, then its children, recursively
RECURSIVE IndexGroup(_, _, _)
IndexGroup(group, sectionId, path) ==
    [k \in DOMAIN group.items |->
        Visit(group.items[k].id, group.items[k].file, group.items[k].label,
              sectionId, group.id, path \o <<F_items, k>>)]
    \o Concat([c \in DOMAIN group.children |->
                 IndexGroup(group.children[c], sectionId, path \o <<F_children, c>>)])

\* SearchIndex.indexSection: the sequence of indexDocument calls for one section
IndexSection(si, s) ==
    (IF s.file # "" /\ s.groups = <<>> /\ s.intro = <<>> /\ s.children = <<>>
     THEN << Visit(s.id, s.file, <<>>, s.id, <<>>, <<si, F_file>>) >>
     ELSE <<>>)
    \o (IF s.intro # <<>>
        THEN << Visit(s.intro[1].id, s.intro[1].file, s.intro[1].label, s.id, <<>>,
                      <<si, F_intro>>) >>
        ELSE <<>>)
    \o Concat([g \in DOMAIN s.groups |-> IndexGroup(s.groups[g], s.id, <<si, F_groups, g>>)])
    \o Concat([c \in DOMAIN s.children |->
                 IndexGroup(s.children[c], s.id, <<si, F_children, c>>)])

\* the loop of buildIndex over the sections: every indexDocument call of a
\* build, in the order the awaits run them
Walk(sections) == Concat([i \in DOMAIN sections |-> IndexSection(i, sections[i])])

(***************************************************************************)
(* The state of the program                                                *)
(***************************************************************************)
VARIABLES
    index,             \* SearchIndex.index: term -> postings, in insertion order
    documents,         \* SearchIndex.documents: docId -> metadata, in insertion order
    isIndexed,         \* SearchIndex.isIndexed
    indexingProgress,  \* SearchIndex.indexingProgress
    totalDocuments,    \* SearchIndex.totalDocuments
    cfg,               \* the configuration tree the server holds
    pc,                \* where each buildIndex invocation stands
    pos,               \* the next indexDocument call of each invocation's walk
    log,               \* the indexDocument calls each invocation has made, with outcome
    last,              \* the last query call: operation, arguments and returned value
    searchManager      \* Application.searchManager: the fields of the SearchManager

vars == <<index, documents, isIndexed, indexingProgress, totalDocuments,
          cfg, pc, pos, log, last, searchManager>>
indexState == <<index, documents, isIndexed, indexingProgress, totalDocuments>>

Builds == 1..MaxBuilds

(***************************************************************************)
(* The inverted index: addTerm and the field extractor                     *)
(***************************************************************************)
\* the place of a term in the index, 0 when the index has no such key
TermAt(idx, term) ==
    IF \E k \in DOMAIN idx : idx[k].term = term
    THEN CHOOSE k \in DOMAIN idx : idx[k].term = term
    ELSE 0

\* this.index.get(term) || []
Matches(idx, term) == IF TermAt(idx, term) = 0 THEN <<>> ELSE idx[TermAt(idx, term)].matches

\* the find of addTerm without "m.docId === docId"
FindMatchAnyDoc(ms, docId, type, sectionIndex, itemIndex) ==
    LET hit(k) == /\ ms[k].type = type
                  /\ ms[k].sectionIndex = sectionIndex
                  /\ ms[k].itemIndex = itemIndex
    IN IF \E k \in DOMAIN ms : hit(k)
       THEN CHOOSE k \in DOMAIN ms : hit(k) /\ \A j \in 1..(k-1) : ~hit(j)
       ELSE 0

\* termMatches.find(m => m.docId === docId && m.type === type && ...): the
\* place of the first posting with the key, 0 when there is none
FindMatch(ms, docId, type, sectionIndex, itemIndex) ==
    LET hit(k) == /\ ms[k].docId = docId
                  /\ ms[k].type = type
                  /\ ms[k].sectionIndex = sectionIndex
                  /\ ms[k].itemIndex = itemIndex
    IN IF \E k \in DOMAIN ms : hit(k)
       THEN CHOOSE k \in DOMAIN ms : hit(k) /\ \A j \in 1..(k-1) : ~hit(j)
       ELSE 0

\* the body of tokens.forEach without the find: every occurrence makes a
\* new posting
AddTokenAlwaysNew(idx, docId, type, weight, sectionIndex, itemIndex, token, position) ==
    IF Len(token) < 2 THEN idx
    ELSE
      LET term == ToLowerCase(token)
          idx1 == IF TermAt(idx, term) = 0
                  THEN Append(idx, [term |-> term, matches |-> <<>>])
                  ELSE idx
          k    == TermAt(idx1, term)
      IN [idx1 EXCEPT ![k].matches =
              Append(@, [docId |-> docId, type |-> type, weight |-> weight,
                         positions |-> <<position>>, count |-> 1,
                         sectionIndex |-> sectionIndex, itemIndex |-> itemIndex])]

\* the body of tokens.forEach without "if (token.length < 2) return"
AddTokenNoFilter(idx, docId, type, weight, sectionIndex, itemIndex, token, position) ==
    LET term == ToLowerCase(token)
        idx1 == IF TermAt(idx, term) = 0
                THEN Append(idx, [term |-> term, matches |-> <<>>])
                ELSE idx
        k    == TermAt(idx1, term)
        ms   == idx1[k].matches
        e    == FindMatch(ms, docId, type, sectionIndex, itemIndex)
        ms1  == IF e # 0
                THEN [ms EXCEPT ![e].positions = Append(@, position),
                                ![e].count = @ + 1]
                ELSE Append(ms, [docId |-> docId, type |-> type, weight |-> weight,
                                 positions |-> <<position>>, count |-> 1,
                                 sectionIndex |-> sectionIndex,
                                 itemIndex |-> itemIndex])
    IN [idx1 EXCEPT ![k].matches = ms1]

\* the body of tokens.forEach in addTerm, for one token at one position
AddToken(idx, docId, type, weight, sectionIndex, itemIndex, token, position) ==
    IF Len(token) < 2 THEN idx
    ELSE
      LET term == ToLowerCase(token)
          idx1 == IF TermAt(idx, term) = 0
                  THEN Append(idx, [term |-> term, matches |-> <<>>])
                  ELSE idx
          k    == TermAt(idx1, term)
          ms   == idx1[k].matches
          e    == FindMatch(ms, docId, type, sectionIndex, itemIndex)
          ms1  == IF e # 0
                  THEN [ms EXCEPT ![e].positions = Append(@, position),
                                  ![e].count = @ + 1]
                  ELSE Append(ms, [docId |-> docId, type |-> type, weight |-> weight,
                                   positions |-> <<position>>, count |-> 1,
                                   sectionIndex |-> sectionIndex,
                                   itemIndex |-> itemIndex])
      IN [idx1 EXCEPT ![k].matches = ms1]

RECURSIVE AddTokens(_, _, _, _, _, _, _, _)
AddTokens(idx, docId, type, weight, sectionIndex, itemIndex, tokens, position) ==
    IF position >= Len(tokens) THEN idx
    ELSE AddTokens(AddToken(idx, docId, type, weight, sectionIndex, itemIndex,
                            tokens[position + 1], position),
                   docId, type, weight, sectionIndex, itemIndex, tokens, position + 1)

\* SearchIndex.addTerm
AddTerm(idx, docId, text, type, weight, sectionIndex, itemIndex) ==
    IF text = <<>> THEN idx
    ELSE AddTokens(idx, docId, type, weight, sectionIndex, itemIndex, Tokenize(text), 0)

\* the texts a field of a document can hold: an uppercase and a lowercase
\* letter, the two characters of a tag, and a space
TextChars == {"A", "b", "<", ">", " "}
Texts == UNION { [1..n -> TextChars] : n \in 0..MaxTextLen }

\* the number of term occurrences the index holds
Occurrences(idx) ==
    SumSeq([e \in DOMAIN idx |->
              SumSeq([k \in DOMAIN idx[e].matches |-> idx[e].matches[k].count])])

\* one addTerm call of indexDocumentContent
Field(text, type, weight, sectionIndex, itemIndex) ==
    [text |-> text, type |-> type, weight |-> weight,
     sectionIndex |-> sectionIndex, itemIndex |-> itemIndex]

\* the addTerm calls indexDocumentContent makes for block number si (from 0)
BlockFields(b, si) ==
    (IF b.title # <<>> THEN << Field(b.title, "section-title", 8, si, NULL) >> ELSE <<>>)
    \o (IF b.content # <<>> THEN << Field(b.content, "content", 3, si, NULL) >> ELSE <<>>)
    \o (IF b.code # <<>> THEN << Field(b.code, "code", 2, si, NULL) >> ELSE <<>>)
    \o Concat([t \in DOMAIN b.tabs |->
                 (IF b.tabs[t].code # <<>>
                  THEN << Field(b.tabs[t].code, "code", 2, si, t - 1) >> ELSE <<>>)
                 \o (IF b.tabs[t].label # <<>>
                     THEN << Field(b.tabs[t].label, "code-label", 5, si, t - 1) >>
                     ELSE <<>>)])
    \o Concat([i \in DOMAIN b.items |->
                 IF b.items[i].str
                 THEN << Field(b.items[i].text, "list-item", 4, si, i - 1) >>
                 ELSE <<>>])

\* the addTerm calls of indexDocumentContent, in order
DocFields(docData) ==
    (IF docData.title # <<>> THEN << Field(docData.title, "title", 10, NULL, NULL) >>
     ELSE <<>>)
    \o Concat([i \in DOMAIN docData.sections |-> BlockFields(docData.sections[i], i - 1)])

RECURSIVE AddFields(_, _, _)
AddFields(idx, docId, fields) ==
    IF fields = <<>> THEN idx
    ELSE AddFields(AddTerm(idx, docId, Head(fields).text, Head(fields).type,
                           Head(fields).weight, Head(fields).sectionIndex,
                           Head(fields).itemIndex),
                   docId, Tail(fields))

\* SearchIndex.indexDocumentContent
IndexDocumentContent(idx, docId, docData) == AddFields(idx, docId, DocFields(docData))

\* this.documents.set(docId, docMetadata): a key keeps its place in the Map
DocAt(docs, docId) ==
    IF \E k \in DOMAIN docs : docs[k].id = docId
    THEN CHOOSE k \in DOMAIN docs : docs[k].id = docId
    ELSE 0
DocumentsSet(docs, meta) ==
    IF DocAt(docs, meta.id) = 0 THEN Append(docs, meta)
    ELSE [docs EXCEPT ![DocAt(docs, meta.id)] = meta]

\* docMetadata of indexDocument (the labels and the content are left out)
DocMetadata(v, docData) ==
    [id |-> v.docId,
     title |-> IF docData.title # <<>> THEN docData.title
               ELSE IF v.label # <<>> THEN v.label ELSE v.docId,
     sectionId |-> v.sectionId,
     groupId |-> v.groupId,
     path |-> v.file]

\* addTerm called on the title of document d1 with any text
AddTermCall(text) ==
    /\ Occurrences(index) < MaxOccurrences
    /\ index' = AddTerm(index, Id_d1, text, "title", 10, NULL, NULL)
    /\ UNCHANGED <<documents, isIndexed, indexingProgress, totalDocuments,
                   cfg, pc, pos, log, last, searchManager>>

(***************************************************************************)
(* Queries.  A score is a fixed-point number with Scale units to 1.        *)
(***************************************************************************)
Scale == 10000

\* Math.log of 1..12, in units of 1/Scale
LnTable == << 0, 6931, 10986, 13863, 16094, 17918,
              19459, 20794, 21972, 23026, 23979, 24849 >>

\* Math.log(0) is -Infinity: below every sum of scores
NegInfinity == -10000000

\* Math.log(n / d) for 0 <= n and 1 <= d
LogRatio(n, d) == IF n = 0 THEN NegInfinity ELSE LnTable[n] - LnTable[d]

\* calculateIDF without the logarithm: every term weighs 1
CalculateIDFOne(idx, docs, term) == Scale

\* calculateIDF counting the postings of the term (matches.length) instead
\* of the distinct documents
CalculateIDFOfPostings(idx, docs, term) ==
    LET ms == Matches(idx, term)
    IN IF Len(ms) = 0 THEN Scale ELSE LogRatio(Len(docs), Len(ms))

\* calculateIDF dividing the totalDocuments counter instead of documents.size
CalculateIDFOfCounter(idx, docs, term) ==
    LET ms == Matches(idx, term)
        docCount == Cardinality({ ms[k].docId : k \in DOMAIN ms })
    IN IF docCount = 0 THEN Scale
       ELSE IF totalDocuments = 0 THEN 0
       ELSE LogRatio(totalDocuments, docCount)

\* SearchIndex.calculateIDF
CalculateIDF(idx, docs, term) ==
    LET ms == Matches(idx, term)
        docCount == Cardinality({ ms[k].docId : k \in DOMAIN ms })
    IN IF docCount = 0 THEN Scale ELSE LogRatio(Len(docs), docCount)

\* the guard without its !this.isIndexed test
QueryGuardIgnoresBuilt(built, query) == query = <<>> \/ IsBlank(query)

\* the guard that opens search, fuzzySearch and getSuggestions
QueryGuard(built, query) == ~built \/ query = <<>> \/ IsBlank(query)

\* one posting's entry in a result's matches
MatchOf(m, termScore, fuzzy) ==
    [type |-> m.type, weight |-> m.weight, positions |-> m.positions,
     sectionIndex |-> m.sectionIndex, itemIndex |-> m.itemIndex,
     termScore |-> termScore, fuzzy |-> fuzzy]

\* the body of matches.forEach: docScores after one more posting; docScores
\* is a Map, kept as the sequence of its values in insertion order
AddScore(docScores, docId, match) ==
    LET has == \E k \in DOMAIN docScores : docScores[k].docId = docId
        ds  == IF has THEN docScores
               ELSE Append(docScores, [docId |-> docId, score |-> 0, matches |-> <<>>])
        k   == CHOOSE j \in DOMAIN ds : ds[j].docId = docId
    IN [ds EXCEPT ![k].score = @ + match.termScore,
                  ![k].matches = Append(@, match)]

RECURSIVE AddScores(_, _)
AddScores(docScores, hits) ==
    IF hits = <<>> THEN docScores
    ELSE AddScores(AddScore(docScores, Head(hits).docId, Head(hits).match), Tail(hits))

\* Array.prototype.sort with (a, b) => b[field] - a[field]: stable, descending
RECURSIVE InsertDesc(_, _, _)
InsertDesc(sorted, x, field) ==
    IF sorted = <<>> THEN <<x>>
    ELSE IF Head(sorted)[field] >= x[field]
         THEN <<Head(sorted)>> \o InsertDesc(Tail(sorted), x, field)
         ELSE <<x>> \o sorted
RECURSIVE SortDesc(_, _, _)
SortDesc(s, acc, field) ==
    IF s = <<>> THEN acc ELSE SortDesc(Tail(s), InsertDesc(acc, Head(s), field), field)

\* Array.prototype.slice(0, n)
Slice(s, n) == SubSeq(s, 1, IF n < Len(s) THEN n ELSE Len(s))

\* the term score without match.count
ExactHitsNoCount(idx, docs, queryTerms) ==
    Concat([t \in DOMAIN queryTerms |->
        LET ms == Matches(idx, queryTerms[t])
        IN [k \in DOMAIN ms |->
              [docId |-> ms[k].docId,
               match |-> MatchOf(ms[k],
                                 ms[k].weight * CalculateIDF(idx, docs, queryTerms[t]),
                                 FALSE)]]])

\* the postings the exact search scores, in the order it meets them
ExactHits(idx, docs, queryTerms) ==
    Concat([t \in DOMAIN queryTerms |->
        LET ms == Matches(idx, queryTerms[t])
        IN [k \in DOMAIN ms |->
              [docId |-> ms[k].docId,
               match |-> MatchOf(ms[k],
                                 ms[k].weight * ms[k].count
                                   * CalculateIDF(idx, docs, queryTerms[t]),
                                 FALSE)]]])

\* search that drops the documents whose score is 0
SearchInPositiveOnly(idx, docs, built, query, maxResults) ==
    IF QueryGuard(built, query) THEN <<>>
    ELSE LET queryTerms == Tokenize(query)
             scored == AddScores(<<>>, ExactHits(idx, docs, queryTerms))
             kept == Concat([k \in DOMAIN scored |->
                               IF scored[k].score > 0 THEN << scored[k] >> ELSE <<>>])
         IN IF queryTerms = <<>> THEN <<>>
            ELSE Slice(SortDesc(kept, <<>>, "score"), maxResults)

\* search with slice(0, maxResults) ahead of sort
SearchInSliceFirst(idx, docs, built, query, maxResults) ==
    IF QueryGuard(built, query) THEN <<>>
    ELSE LET queryTerms == Tokenize(query)
         IN IF queryTerms = <<>> THEN <<>>
            ELSE SortDesc(Slice(AddScores(<<>>, ExactHits(idx, docs, queryTerms)),
                                maxResults),
                          <<>>, "score")

\* SearchIndex.search
SearchIn(idx, docs, built, query, maxResults) ==
    IF QueryGuard(built, query) THEN <<>>
    ELSE LET queryTerms == Tokenize(query)
         IN IF queryTerms = <<>> THEN <<>>
            ELSE Slice(SortDesc(AddScores(<<>>, ExactHits(idx, docs, queryTerms)),
                                <<>>, "score"),
                       maxResults)

\* Math.min without its third argument
Min3TwoOnly(a, b, c) == IF a <= b THEN a ELSE b

Min3(a, b, c) == IF a <= b /\ a <= c THEN a ELSE IF b <= c THEN b ELSE c

\* one row of the matrix of levenshteinDistance: row i from row i - 1, for
\* character c2 of str2; a row holds matrix[i][0..len1] at places 1..len1+1
RECURSIVE LevRow(_, _, _, _)
LevRow(prev, c2, str1, row) ==
    LET j == Len(row)
    IN IF j > Len(str1) THEN row
       ELSE LevRow(prev, c2, str1,
                   Append(row, IF c2 = str1[j]
                               THEN prev[j]
                               ELSE Min3(prev[j] + 1, row[j] + 1, prev[j + 1] + 1)))

RECURSIVE LevRows(_, _, _, _)
LevRows(prev, str1, str2, i) ==
    IF i > Len(str2) THEN prev
    ELSE LevRows(LevRow(prev, str2[i], str1, <<i>>), str1, str2, i + 1)

\* SearchIndex.levenshteinDistance
LevenshteinDistance(str1, str2) ==
    LevRows([j \in 1..(Len(str1) + 1) |-> j - 1], str1, str2, 1)[Len(str1) + 1]

\* the strings levenshteinDistance is called with: all strings over two
\* letters up to the bound, and the two words of the documented example
T_kitten == <<"k","i","t","t","e","n">>
T_sitting == <<"s","i","t","t","i","n","g">>
StrChars == {"a", "b"}
ShortStrings == UNION { [1..n -> StrChars] : n \in 0..MaxStrLen }
Strings == ShortStrings \cup {T_kitten, T_sitting}

\* the fuzzy pass without the test "distance < term.length"
FuzzyHitsAnyLength(idx, queryLower, maxDistance) ==
    Concat([e \in DOMAIN idx |->
        LET distance == LevenshteinDistance(queryLower, idx[e].term)
            ms == idx[e].matches
        IN IF distance <= maxDistance
           THEN [k \in DOMAIN ms |->
                   [docId |-> ms[k].docId,
                    match |-> MatchOf(ms[k],
                                      (ms[k].weight * (Scale \div (distance + 1))) \div 2,
                                      TRUE)]]
           ELSE <<>>])

\* the postings the fuzzy pass scores, in the order it meets them
FuzzyHits(idx, queryLower, maxDistance) ==
    Concat([e \in DOMAIN idx |->
        LET distance == LevenshteinDistance(queryLower, idx[e].term)
            ms == idx[e].matches
        IN IF distance <= maxDistance /\ distance < Len(idx[e].term)
           THEN [k \in DOMAIN ms |->
                   [docId |-> ms[k].docId,
                    match |-> MatchOf(ms[k],
                                      (ms[k].weight * (Scale \div (distance + 1))) \div 2,
                                      TRUE)]]
           ELSE <<>>])

\* fuzzySearch without "if (exactResults.length > 0) return exactResults"
FuzzySearchAlwaysFuzzy(idx, docs, built, query, maxResults, maxDistance) ==
    IF QueryGuard(built, query) THEN <<>>
    ELSE Slice(SortDesc(AddScores(<<>>, FuzzyHits(idx, ToLowerCase(query), maxDistance)),
                        <<>>, "score"),
               maxResults)

\* SearchIndex.fuzzySearch
FuzzySearchIn(idx, docs, built, query, maxResults, maxDistance) ==
    IF QueryGuard(built, query) THEN <<>>
    ELSE LET exactResults == SearchIn(idx, docs, built, query, maxResults)
         IN IF Len(exactResults) > 0 THEN exactResults
            ELSE Slice(SortDesc(AddScores(<<>>, FuzzyHits(idx, ToLowerCase(query),
                                                          maxDistance)),
                                <<>>, "score"),
                       maxResults)

\* Set.prototype.add over a sequence of values: first occurrences, in order
RECURSIVE Distinct(_, _)
Distinct(s, acc) ==
    IF s = <<>> THEN acc
    ELSE Distinct(Tail(s), IF \E k \in DOMAIN acc : acc[k] = Head(s)
                            THEN acc ELSE Append(acc, Head(s)))

\* term.startsWith(queryLower) && term.length > queryLower.length
ExtendsPrefix(term, queryLower) == StartsWith(term, queryLower) /\ Len(term) > Len(queryLower)

\* the index after getSuggestions: matches.sort(...) sorts the posting list
\* of every term that extends the prefix, in place
SuggestionsIndex(idx, built, query) ==
    IF QueryGuard(built, query) THEN idx
    ELSE [e \in DOMAIN idx |->
            IF ExtendsPrefix(idx[e].term, ToLowerCase(query))
            THEN [idx[e] EXCEPT !.matches = SortDesc(@, <<>>, "weight")]
            ELSE idx[e]]

\* getSuggestions collecting into an array instead of a Set
GetSuggestionsArray(idx, docs, built, query, maxSuggestions) ==
    IF QueryGuard(built, query) THEN <<>>
    ELSE LET queryLower == ToLowerCase(query)
             fromTitles ==
                 Concat([d \in DOMAIN docs |->
                           IF Includes(ToLowerCase(docs[d].title), queryLower)
                           THEN << docs[d].title >> ELSE <<>>])
             fromTerms ==
                 Concat([e \in DOMAIN idx |->
                    LET sorted == SortDesc(idx[e].matches, <<>>, "weight")
                    IN IF ExtendsPrefix(idx[e].term, queryLower) /\ sorted # <<>>
                          /\ DocAt(docs, sorted[1].docId) # 0
                          /\ docs[DocAt(docs, sorted[1].docId)].title # <<>>
                       THEN << docs[DocAt(docs, sorted[1].docId)].title >>
                       ELSE <<>>])
         IN Slice(fromTitles \o fromTerms, maxSuggestions)

\* SearchIndex.getSuggestions, the returned list
GetSuggestionsIn(idx, docs, built, query, maxSuggestions) ==
    IF QueryGuard(built, query) THEN <<>>
    ELSE LET queryLower == ToLowerCase(query)
             fromTitles ==
                 Concat([d \in DOMAIN docs |->
                           IF Includes(ToLowerCase(docs[d].title), queryLower)
                           THEN << docs[d].title >> ELSE <<>>])
             fromTerms ==
                 Concat([e \in DOMAIN idx |->
                    LET sorted == SortDesc(idx[e].matches, <<>>, "weight")
                    IN IF ExtendsPrefix(idx[e].term, queryLower) /\ sorted # <<>>
                          /\ DocAt(docs, sorted[1].docId) # 0
                          /\ docs[DocAt(docs, sorted[1].docId)].title # <<>>
                       THEN << docs[DocAt(docs, sorted[1].docId)].title >>
                       ELSE <<>>])
         IN Slice(Distinct(fromTitles \o fromTerms, <<>>), maxSuggestions)

\* the value of a missing Map entry
Undefined == [id |-> <<>>]

\* SearchIndex.getDocument
GetDocumentIn(docs, docId) == IF DocAt(docs, docId) = 0 THEN Undefined ELSE docs[DocAt(docs, docId)]

\* SearchIndex.getProgress, as the fraction <<numerator, denominator>>;
\* Math.min(p / t, 1) is <<1, 1>> when p >= t
GetProgressIn(progress, total) ==
    IF total = 0 THEN <<1, 1>>
    ELSE IF progress >= total THEN <<1, 1>> ELSE <<progress, total>>

(***************************************************************************)
(* The builder: one action per run of buildIndex between two awaits        *)
(***************************************************************************)
\* the indexDocument calls of a build over the served configuration
WalkOf == [c \in AllConfigNames |-> Walk(Configs[c])]

InFlight(b) == pc[b] \in {"loadConfig", "walk"}

\* appState.getTabData(docId) is defined
Cached(v) == v.docId \in DOMAIN TabData

\* indexDocument has to await loadContentFile for this call
NeedsFetch(v) == ~Cached(v) /\ v.file # ""

\* the next indexDocument call of invocation b, when its walk has one left
HasNext(b) == pc[b] = "walk" /\ pos[b] <= Len(WalkOf[cfg])
NextVisit(b) == WalkOf[cfg][pos[b]]

\* the walk throws before it calls indexDocument: "item.id" of a null item
Throws(v) == v.docId = Id_null

\* one entry of the log of indexDocument calls
Logged(v, outcome) == [ref |-> v.ref, docId |-> v.docId, outcome |-> outcome]

\* buildIndex without the line "if (this.isIndexed) return"
BuildIndexNoGuard(b) ==
    /\ pc[b] = "idle"
    /\ \A c \in Builds : c < b => pc[c] # "idle"
    /\ isIndexed' = FALSE
    /\ index' = <<>>
    /\ documents' = <<>>
    /\ pc' = [pc EXCEPT ![b] = "loadConfig"]
    /\ UNCHANGED <<indexingProgress, totalDocuments, cfg, pos, log, last>>

\* buildIndex is called: the guard, and the reset that runs up to the await
\* of loadMainConfig.  Invocations are numbered in call order.
BuildIndex(b) ==
    /\ pc[b] = "idle"
    /\ \A c \in Builds : c < b => pc[c] # "idle"
    /\ IF isIndexed
       THEN /\ pc' = [pc EXCEPT ![b] = "returned"]
            /\ UNCHANGED <<index, documents, isIndexed>>
       ELSE /\ isIndexed' = FALSE
            /\ index' = <<>>
            /\ documents' = <<>>
            /\ pc' = [pc EXCEPT ![b] = "loadConfig"]
    /\ UNCHANGED <<indexingProgress, totalDocuments, cfg, pos, log, last>>

\* loadMainConfig resolves: the counters are set and the walk starts
ConfigLoaded(b) ==
    /\ pc[b] = "loadConfig"
    /\ totalDocuments' = CountDocuments(Configs[cfg])
    /\ indexingProgress' = 0
    /\ pc' = [pc EXCEPT ![b] = "walk"]
    /\ pos' = [pos EXCEPT ![b] = 1]
    /\ UNCHANGED <<index, documents, isIndexed, cfg, log, last>>

\* the catch of buildIndex with "this.isIndexed = true" in a finally
ConfigFailedBuilt(b) ==
    /\ pc[b] = "loadConfig"
    /\ isIndexed' = TRUE
    /\ pc' = [pc EXCEPT ![b] = "failed"]
    /\ UNCHANGED <<index, documents, indexingProgress, totalDocuments, cfg, pos, log, last>>

\* loadMainConfig rejects: the catch of buildIndex
ConfigFailed(b) ==
    /\ pc[b] = "loadConfig"
    /\ isIndexed' = FALSE
    /\ pc' = [pc EXCEPT ![b] = "failed"]
    /\ UNCHANGED <<index, documents, indexingProgress, totalDocuments, cfg, pos, log, last>>

\* indexDocument without "this.documents.set(docId, docMetadata)"
StoreDocumentNoSet(b, v, docData) ==
    /\ documents' = documents
    /\ index' = IndexDocumentContent(index, v.docId, docData)
    /\ indexingProgress' = indexingProgress + 1
    /\ log' = [log EXCEPT ![b] = Append(@, Logged(v, "indexed"))]

\* indexDocument from "Store document metadata" to indexingProgress++
StoreDocument(b, v, docData) ==
    /\ documents' = DocumentsSet(documents, DocMetadata(v, docData))
    /\ index' = IndexDocumentContent(index, v.docId, docData)
    /\ indexingProgress' = indexingProgress + 1
    /\ log' = [log EXCEPT ![b] = Append(@, Logged(v, "indexed"))]

\* a skip that counts the document as indexed (indexingProgress++ in a finally)
SkipDocumentCounting(b, v, outcome) ==
    /\ UNCHANGED <<index, documents>>
    /\ indexingProgress' = indexingProgress + 1
    /\ log' = [log EXCEPT ![b] = Append(@, Logged(v, outcome))]

\* a skip after the metadata was stored (documents.set ahead of the load)
SkipDocumentStoring(b, v, outcome) ==
    /\ documents' = DocumentsSet(documents, DocMetadata(v, [title |-> <<>>]))
    /\ UNCHANGED <<index, indexingProgress>>
    /\ log' = [log EXCEPT ![b] = Append(@, Logged(v, outcome))]

\* indexDocument returns without storing: the catch, or if (!docData) return
SkipDocument(b, v, outcome) ==
    /\ UNCHANGED <<index, documents, indexingProgress>>
    /\ log' = [log EXCEPT ![b] = Append(@, Logged(v, outcome))]

\* one indexDocument call of invocation b, to its end
IndexDocument(b) ==
    /\ HasNext(b)
    /\ ~Throws(NextVisit(b))
    /\ LET v == NextVisit(b)
       IN \/ /\ Cached(v)
             /\ StoreDocument(b, v, TabData[v.docId])
          \/ /\ NeedsFetch(v)
             /\ v.file \in DOMAIN ContentFiles
             /\ StoreDocument(b, v, ContentFiles[v.file])
          \/ /\ NeedsFetch(v)
             /\ SkipDocument(b, v, "failed")
          \/ /\ ~Cached(v) /\ v.file = ""
             /\ SkipDocument(b, v, "skipped")
    /\ pos' = [pos EXCEPT ![b] = @ + 1]
    /\ UNCHANGED <<isIndexed, totalDocuments, cfg, pc, last>>

\* an error escapes the walk (outside the try of indexDocument): the catch
\* of buildIndex, with the index as the walk left it
WalkThrows(b) ==
    /\ HasNext(b)
    /\ Throws(NextVisit(b))
    /\ isIndexed' = FALSE
    /\ pc' = [pc EXCEPT ![b] = "failed"]
    /\ UNCHANGED <<index, documents, indexingProgress, totalDocuments, cfg, pos, log, last>>

\* this.isIndexed = true ahead of the end of the loop over the sections
BuildFinishEarly(b) ==
    /\ pc[b] = "walk"
    /\ isIndexed' = TRUE
    /\ pc' = [pc EXCEPT ![b] = "done"]
    /\ UNCHANGED <<index, documents, indexingProgress, totalDocuments, cfg, pos, log, last>>

\* the loop over the sections has ended: this.isIndexed = true
BuildFinish(b) ==
    /\ pc[b] = "walk"
    /\ ~HasNext(b)
    /\ isIndexed' = TRUE
    /\ pc' = [pc EXCEPT ![b] = "done"]
    /\ UNCHANGED <<index, documents, indexingProgress, totalDocuments, cfg, pos, log, last>>

(***************************************************************************)
(* Query calls.  A query runs as a task of its own, so only while every    *)
(* build in flight is waiting for a fetch.                                 *)
(***************************************************************************)
Waiting(b) ==
    \/ ~InFlight(b)
    \/ pc[b] = "loadConfig"
    \/ HasNext(b) /\ NeedsFetch(NextVisit(b))
Quiescent == \A b \in Builds : Waiting(b)

\* the queries and document ids the callers pass
Q_empty == <<>>
Q_blank == <<" ">>
Q_lo    == <<"l","o">>
Q_loop  == <<"l","o","o","p">>
Q_loops == <<"L","o","o","p","s">>
Q_fun   == <<"f","u","n">>
Q_ntr   == <<"n","t","r">>
Q_loopsLower == <<"l","o","o","p","s">>
Q_loopfor == <<"l","o","o","p"," ","f","o","r">>
Queries == {Q_empty, Q_blank, Q_lo, Q_loop, Q_loops, Q_fun, Q_ntr, Q_loopsLower,
            Q_loopfor}
\* the values of maxResults a caller passes besides the default
MaxResultsArgs == {0, 1, 2}
DocIds == {Id_d1, Id_d2, Id_d3}

\* the default arguments of search, fuzzySearch and getSuggestions
DefaultMaxResults == 50
DefaultMaxDistance == 2
DefaultMaxSuggestions == 10

Called(op, arg, result) == [op |-> op, arg |-> arg, result |-> result]

Search(query) ==
    /\ Quiescent
    /\ last' = Called("search", query,
                      SearchIn(index, documents, isIndexed, query, DefaultMaxResults))
    /\ UNCHANGED <<index, documents, isIndexed, indexingProgress, totalDocuments,
                   cfg, pc, pos, log>>

\* search called with an explicit maxResults
SearchTop(query, maxResults) ==
    /\ Quiescent
    /\ last' = Called("search(query, maxResults)", <<query, maxResults>>,
                      SearchIn(index, documents, isIndexed, query, maxResults))
    /\ UNCHANGED <<index, documents, isIndexed, indexingProgress, totalDocuments,
                   cfg, pc, pos, log>>

FuzzySearch(query) ==
    /\ Quiescent
    /\ last' = Called("fuzzySearch", query,
                      FuzzySearchIn(index, documents, isIndexed, query,
                                    DefaultMaxResults, DefaultMaxDistance))
    /\ UNCHANGED <<index, documents, isIndexed, indexingProgress, totalDocuments,
                   cfg, pc, pos, log>>

GetSuggestions(query) ==
    /\ Quiescent
    /\ last' = Called("getSuggestions", query,
                      GetSuggestionsIn(index, documents, isIndexed, query,
                                       DefaultMaxSuggestions))
    /\ index' = SuggestionsIndex(index, isIndexed, query)
    /\ UNCHANGED <<documents, isIndexed, indexingProgress, totalDocuments,
                   cfg, pc, pos, log>>

GetDocument(docId) ==
    /\ Quiescent
    /\ last' = Called("getDocument", docId, GetDocumentIn(documents, docId))
    /\ UNCHANGED <<index, documents, isIndexed, indexingProgress, totalDocuments,
                   cfg, pc, pos, log>>

GetProgress ==
    /\ Quiescent
    /\ last' = Called("getProgress", <<>>, GetProgressIn(indexingProgress, totalDocuments))
    /\ UNCHANGED <<index, documents, isIndexed, indexingProgress, totalDocuments,
                   cfg, pc, pos, log>>

\* the pairs <<maxResults, maxDistance>> a caller passes besides the defaults
FuzzyArgs == { <<1, 2>>, <<50, 1>> }

\* fuzzySearch called with an explicit maxResults and maxDistance
FuzzySearchTop(query, maxResults, maxDistance) ==
    /\ Quiescent
    /\ last' = Called("fuzzySearch(query, maxResults, maxDistance)",
                      <<query, maxResults, maxDistance>>,
                      FuzzySearchIn(index, documents, isIndexed, query,
                                    maxResults, maxDistance))
    /\ UNCHANGED <<index, documents, isIndexed, indexingProgress, totalDocuments,
                   cfg, pc, pos, log>>

\* levenshteinDistance called with two strings
LevenshteinDistanceCall(str1, str2) ==
    /\ last' = Called("levenshteinDistance", <<str1, str2>>,
                      LevenshteinDistance(str1, str2))
    /\ UNCHANGED <<index, documents, isIndexed, indexingProgress, totalDocuments,
                   cfg, pc, pos, log, searchManager>>

(***************************************************************************)
(* The SearchManager: setSearchIndex and performSearch                     *)
(***************************************************************************)
\* the arguments performSearch passes to search and to fuzzySearch
PerformMaxResults == 50
PerformFuzzyMaxResults == 30
PerformFuzzyMaxDistance == 2

\* String.prototype.trim
RECURSIVE TrimStart(_)
TrimStart(s) == IF s # <<>> /\ IsSpaceChar(Head(s)) THEN TrimStart(Tail(s)) ELSE s
RECURSIVE TrimEnd(_)
TrimEnd(s) ==
    IF s # <<>> /\ IsSpaceChar(s[Len(s)]) THEN TrimEnd(SubSeq(s, 1, Len(s) - 1)) ELSE s
Trim(s) == TrimEnd(TrimStart(s))

\* SearchManager.getPriorityFromType, in tenths
GetPriorityFromType(type) ==
    CASE type = "title" -> 10
      [] type = "code-label" -> 15
      [] type = "section-title" -> 20
      [] type = "list-item" -> 30
      [] type = "content" -> 40
      [] OTHER -> 50

\* processIndexResults finds a text to show for the best match: the title,
\* or the field of the block the posting came from; no branch handles a
\* code-label match, whose text stays empty
HasText(bestMatch) ==
    bestMatch.type \in {"title", "section-title", "content", "code", "list-item"}

\* one entry of searchResults (the snippet and the labels are left out)
SearchResult(type, tabId, score, priority) ==
    [type |-> type, tabId |-> tabId, score |-> score, priority |-> priority]

\* the comparator of processIndexResults: priority ascending, then score
\* descending; Array.prototype.sort is stable
RECURSIVE InsertResult(_, _)
InsertResult(sorted, x) ==
    IF sorted = <<>> THEN <<x>>
    ELSE IF \/ Head(sorted).priority < x.priority
            \/ Head(sorted).priority = x.priority /\ Head(sorted).score >= x.score
         THEN <<Head(sorted)>> \o InsertResult(Tail(sorted), x)
         ELSE <<x>> \o sorted
RECURSIVE SortResultsByScore(_, _)
SortResultsByScore(s, acc) ==
    IF s = <<>> THEN acc ELSE SortResultsByScore(Tail(s), InsertResult(acc, Head(s)))

\* the filter that keeps the first result of each tabId|type key
RECURSIVE Deduplicate(_, _)
Deduplicate(s, acc) ==
    IF s = <<>> THEN acc
    ELSE Deduplicate(Tail(s),
                     IF \E k \in DOMAIN acc : acc[k].tabId = Head(s).tabId
                                               /\ acc[k].type = Head(s).type
                     THEN acc ELSE Append(acc, Head(s)))

\* SearchManager.processIndexResults: the value of searchResults after it
ProcessIndexResults(indexResults, docs) ==
    LET pushed ==
          Concat([r \in DOMAIN indexResults |->
             LET best == SortDesc(indexResults[r].matches, <<>>, "termScore")
             IN IF DocAt(docs, indexResults[r].docId) # 0 /\ best # <<>>
                   /\ HasText(best[1])
                THEN << SearchResult(best[1].type, indexResults[r].docId,
                                     indexResults[r].score,
                                     GetPriorityFromType(best[1].type)) >>
                ELSE <<>>])
    IN Deduplicate(SortResultsByScore(pushed, <<>>), <<>>)

\* String.prototype.split(/\s+/) of isFullWordMatch
IsFullWordMatch(text, query) ==
    \E k \in DOMAIN SplitWords(text, <<>>) : SplitWords(text, <<>>)[k] = ToLowerCase(query)

\* one test of searchInContent: a field that includes the query
ContentHit(text, type, tabId, query, priority) ==
    IF text # <<>> /\ Includes(ToLowerCase(text), query)
    THEN << SearchResult(type, tabId, 0,
                         IF IsFullWordMatch(ToLowerCase(text), query)
                         THEN priority ELSE priority + 5) >>
    ELSE <<>>

\* SearchManager.searchInContent: the results pushed for one document
SearchInContent(data, tabId, query) ==
    ContentHit(data.title, "title", tabId, query, 10)
    \o Concat([i \in DOMAIN data.sections |->
          LET b == data.sections[i]
          IN ContentHit(b.title, "section-title", tabId, query, 20)
             \o ContentHit(b.content, "content", tabId, query, 30)
             \o ContentHit(b.code, "code", tabId, query, 40)
             \o Concat([k \in DOMAIN b.items |->
                   IF b.items[k].str
                   THEN ContentHit(b.items[k].text, "list-item", tabId, query, 50)
                   ELSE <<>>])])

\* a sequence of the elements of a finite set, in some order
RECURSIVE SeqOf(_)
SeqOf(S) == IF S = {} THEN <<>> ELSE LET x == CHOOSE y \in S : TRUE
                                     IN <<x>> \o SeqOf(S \ {x})

\* SearchManager.searchAllTabs and sortResults over the documents the
\* application holds (the ties of sortResults are left in scan order)
SearchAllTabs(query) ==
    LET tabs == SeqOf(DOMAIN TabData)
        found == Concat([t \in DOMAIN tabs |->
                           SearchInContent(TabData[tabs[t]], tabs[t], query)])
    IN Deduplicate(SortResultsByScore(found, <<>>), <<>>)

\* SearchManager.setSearchIndex, called with the index as the build left it
SetSearchIndex == searchManager' = [searchManager EXCEPT !.useIndex = isIndexed']

\* the index calls of performSearch, in order, with what they returned
IndexCalls(query) ==
    LET indexResults == SearchIn(index, documents, isIndexed, query, PerformMaxResults)
    IN << Called("search", query, indexResults) >>
       \o (IF Len(indexResults) = 0
           THEN << Called("fuzzySearch", query,
                          FuzzySearchIn(index, documents, isIndexed, query,
                                        PerformFuzzyMaxResults,
                                        PerformFuzzyMaxDistance)) >>
           ELSE <<>>)

\* SearchManager.performSearch up to its end or to the await of searchAllTabs
PerformSearch(query) ==
    /\ Quiescent
    /\ ~searchManager.isSearching
    /\ IF Trim(ToLowerCase(query)) = <<>>
       THEN /\ last' = Called("performSearch", query, <<>>)
            /\ UNCHANGED searchManager
       ELSE IF searchManager.useIndex
       THEN LET calls == IndexCalls(query)
            IN /\ last' = Called("performSearch", query, calls)
               /\ searchManager' =
                     [searchManager EXCEPT
                        !.searchResults =
                            ProcessIndexResults(calls[Len(calls)].result, documents)]
       ELSE /\ last' = Called("performSearch", query, <<>>)
            /\ searchManager' = [searchManager EXCEPT
                                    !.isSearching = TRUE,
                                    !.searchResults = <<>>,
                                    !.searchQuery = Trim(ToLowerCase(query))]
    /\ UNCHANGED <<index, documents, isIndexed, indexingProgress, totalDocuments,
                   cfg, pc, pos, log>>

\* performSearch from the end of the await of searchAllTabs to its finally
PerformSearchFallback ==
    /\ Quiescent
    /\ searchManager.isSearching
    /\ searchManager' = [searchManager EXCEPT
                            !.isSearching = FALSE,
                            !.searchResults = SearchAllTabs(searchManager.searchQuery)]
    /\ UNCHANGED <<index, documents, isIndexed, indexingProgress, totalDocuments,
                   cfg, pc, pos, log, last>>

\* the queries typed into the search input
Q_home == <<"h","o","m","e">>
InputQueries == {Q_blank, Q_lo, Q_loop, Q_home}

\* the maxSuggestions showSuggestions passes
ShowSuggestionsMax == 8

\* a pending timeout of the event loop: the id setTimeout returned and the
\* query its callback passes to performSearch
Timer(id, query) == [id |-> id, query |-> query]

\* handleSearchInput without its clearTimeout
KeepSearchTimeout(sm) == sm

\* clearTimeout(this.searchTimeout) of handleSearchInput
ClearSearchTimeout(sm) ==
    IF sm.searchTimeout # NULL
    THEN [sm EXCEPT !.timers = { t \in @ : t.id # sm.searchTimeout }]
    ELSE sm

\* SearchManager.handleSearchInput(query); timerIds counts the ids that
\* setTimeout has returned
HandleSearchInput(query) ==
    /\ Quiescent
    /\ LET sm == [ClearSearchTimeout(searchManager) EXCEPT
                     !.currentSearchQuery = query]
       IN IF Trim(query) = <<>>
          THEN /\ searchManager' = [sm EXCEPT !.suggestions = <<>>]
               /\ last' = Called("handleSearchInput", query, "hideResults")
               /\ UNCHANGED index
          ELSE IF Len(query) < 3 /\ sm.useIndex
          THEN /\ searchManager' =
                     [sm EXCEPT !.suggestions =
                         GetSuggestionsIn(index, documents, isIndexed, query,
                                          ShowSuggestionsMax)]
               /\ index' = SuggestionsIndex(index, isIndexed, query)
               /\ last' = Called("handleSearchInput", query, "showSuggestions")
          ELSE /\ sm.timerIds < MaxTimers
               /\ searchManager' =
                     [sm EXCEPT !.timerIds = @ + 1,
                                !.searchTimeout = sm.timerIds + 1,
                                !.timers = @ \cup {Timer(sm.timerIds + 1, query)}]
               /\ last' = Called("handleSearchInput", query, "setTimeout")
               /\ UNCHANGED index
    /\ UNCHANGED <<documents, isIndexed, indexingProgress, totalDocuments,
                   cfg, pc, pos, log>>

\* the callback of a timeout of handleSearchInput runs: performSearch(query)
\* up to its end or to the await of searchAllTabs
SearchTimeoutFires(t) ==
    /\ Quiescent
    /\ t \in searchManager.timers
    /\ LET sm == [searchManager EXCEPT !.timers = @ \ {t}]
           searchQuery == Trim(ToLowerCase(t.query))
       IN IF sm.isSearching
          THEN /\ searchManager' = sm
               /\ last' = Called("setTimeout callback", t.query, "return")
          ELSE IF searchQuery = <<>>
          THEN /\ searchManager' = sm
               /\ last' = Called("setTimeout callback", t.query, "hideResults")
          ELSE IF sm.useIndex
          THEN LET calls == IndexCalls(t.query)
               IN /\ searchManager' =
                        [sm EXCEPT !.searchResults =
                            ProcessIndexResults(calls[Len(calls)].result, documents)]
                  /\ last' = Called("setTimeout callback", t.query, "index")
          ELSE /\ searchManager' = [sm EXCEPT !.isSearching = TRUE,
                                              !.searchResults = <<>>,
                                              !.searchQuery = searchQuery]
               /\ last' = Called("setTimeout callback", t.query, "searchAllTabs")
    /\ UNCHANGED <<index, documents, isIndexed, indexingProgress, totalDocuments,
                   cfg, pc, pos, log>>

\* the continuation of Application.buildSearchIndex once buildIndex(b) has
\* resolved: setSearchIndex runs before any other task
AwaitBuildIndex(b) ==
    IF pc'[b] \in {"returned", "done", "failed"}
    THEN SetSearchIndex
    ELSE UNCHANGED searchManager

\* Application.buildSearchIndex, scheduled once by initialize and awaiting
\* buildIndex: an invocation starts when no other is in flight
BuildSearchIndex(b) ==
    /\ \A c \in Builds : ~InFlight(c)
    /\ BuildIndex(b)
    /\ AwaitBuildIndex(b)

(***************************************************************************)
(* indexDocument called on a set of documents in any order                 *)
(***************************************************************************)
\* the document references a build is given, in any order
OrderLeaves == {L_d1, L_d2, L_d4, L_doc1, L_doc2}

\* the queries run over these documents: one more, that repeats a token
Q_gogo == <<"g","o"," ","G","o">>
OrderQueries == Queries \cup {Q_gogo}

\* the indexDocument call for a leaf of group g1 of section s1
VisitOf(leaf) == Visit(leaf.id, leaf.file, leaf.label, Id_s1, Id_g1, <<>>)

\* one indexDocument call of the build, on a document not indexed yet: the
\* load succeeds and the document is stored
IndexDocumentCall(leaf) ==
    /\ ~isIndexed
    /\ \A i \in DOMAIN log[1] : log[1][i].docId # leaf.id
    /\ StoreDocument(1, VisitOf(leaf), ContentFiles[leaf.file])
    /\ UNCHANGED <<isIndexed, totalDocuments, cfg, pc, pos, last, searchManager>>

\* the loop of the build has ended: this.isIndexed = true
IndexingDone ==
    /\ ~isIndexed
    /\ isIndexed' = TRUE
    /\ UNCHANGED <<index, documents, indexingProgress, totalDocuments, cfg, pc, pos,
                   log, last, searchManager>>

\* the index and the documents map after indexDocument on each leaf of a
\* sequence, in that order (each call is evaluated to its end before the
\* next one starts, as the awaits of the walk make it)
RECURSIVE IndexAll(_, _)
IndexAll(leaves, acc) ==
    IF leaves = <<>> THEN acc
    ELSE LET stored ==
               [index |-> IndexDocumentContent(acc.index, Head(leaves).id,
                                               ContentFiles[Head(leaves).file]),
                documents |-> DocumentsSet(acc.documents,
                                           DocMetadata(VisitOf(Head(leaves)),
                                                       ContentFiles[Head(leaves).file]))]
         IN IF DocAt(stored.documents, Head(leaves).id) # 0
            THEN IndexAll(Tail(leaves), stored)
            ELSE acc

(***************************************************************************)
(* Specifications                                                          *)
(***************************************************************************)
InitWith(names) ==
    /\ index = <<>>
    /\ documents = <<>>
    /\ isIndexed = FALSE
    /\ indexingProgress = 0
    /\ totalDocuments = 0
    /\ cfg \in names
    /\ pc = [b \in Builds |-> "idle"]
    /\ pos = [b \in Builds |-> 0]
    /\ log = [b \in Builds |-> <<>>]
    /\ last = Called("none", <<>>, <<>>)
    /\ searchManager = [useIndex |-> FALSE, isSearching |-> FALSE,
                        searchResults |-> <<>>, searchQuery |-> <<>>,
                        currentSearchQuery |-> <<>>, suggestions |-> <<>>,
                        searchTimeout |-> NULL, timers |-> {}, timerIds |-> 0]

Init == InitWith(ConfigNames)

\* the calls of the SearchIndex's query methods
IndexQuery ==
    \/ \E q \in Queries : Search(q)
    \/ \E q \in Queries : \E n \in MaxResultsArgs : SearchTop(q, n)
    \/ \E q \in Queries : FuzzySearch(q)
    \/ \E q \in Queries : GetSuggestions(q)
    \/ \E d \in DocIds : GetDocument(d)
    \/ GetProgress

Query == IndexQuery /\ UNCHANGED searchManager

\* one run of buildIndex between two awaits, after its call
BuildIndexStep(b) ==
    \/ ConfigLoaded(b)
    \/ ConfigFailed(b)
    \/ IndexDocument(b)
    \/ WalkThrows(b)
    \/ BuildFinish(b)

BuildStep == \E b \in Builds : BuildIndexStep(b) /\ AwaitBuildIndex(b)

Next ==
    \/ \E b \in Builds : BuildSearchIndex(b)
    \/ BuildStep
    \/ Query

\* the application: buildIndex invocations follow one another
Spec == Init /\ [][Next]_vars

NextOverlap ==
    \/ \E b \in Builds : BuildIndex(b) /\ UNCHANGED searchManager
    \/ \E b \in Builds : BuildIndexStep(b) /\ UNCHANGED searchManager
    \/ Query

\* the configurations overlapping builds start from
InitOverlap == InitWith({"flat", "mixed", "empty"})

\* any caller of the index: buildIndex invocations may overlap
SpecOverlap == InitOverlap /\ [][NextOverlap]_vars

InitTen == InitWith({"ten"})

NextTen ==
    \/ \E b \in Builds : BuildSearchIndex(b)
    \/ BuildStep
    \/ GetProgress /\ UNCHANGED searchManager

\* the application over the ten-document configuration
SpecTen == InitTen /\ [][NextTen]_vars

NextAddTerm == \E text \in Texts : AddTermCall(text)

\* addTerm called with any sequence of texts
SpecAddTerm == InitWith({"empty"}) /\ [][NextAddTerm]_vars

NextLevenshtein == \E str1, str2 \in Strings : LevenshteinDistanceCall(str1, str2)

\* levenshteinDistance called with any two strings
SpecLevenshtein == InitWith({"empty"}) /\ [][NextLevenshtein]_vars

NextManager ==
    \/ \E b \in Builds : BuildSearchIndex(b)
    \/ BuildStep
    \/ \E q \in Queries : PerformSearch(q)
    \/ PerformSearchFallback

\* the application with the searches the SearchManager runs
SpecManager == InitWith({"flat", "mixed", "empty"}) /\ [][NextManager]_vars

NextOrder ==
    \/ \E leaf \in OrderLeaves : IndexDocumentCall(leaf)
    \/ IndexingDone
    \/ \E q \in OrderQueries : Search(q) /\ UNCHANGED searchManager

\* a build that indexes any subset of the documents in any order
SpecOrder == InitWith({"empty"}) /\ [][NextOrder]_vars

\* the documents the fuzzy searches run over
FuzzyLeaves == {L_d1, L_d2, L_doc2}

NextFuzzy ==
    \/ \E leaf \in FuzzyLeaves : IndexDocumentCall(leaf)
    \/ IndexingDone
    \/ \E q \in OrderQueries : FuzzySearch(q) /\ UNCHANGED searchManager
    \/ \E q \in OrderQueries : \E a \in FuzzyArgs :
          FuzzySearchTop(q, a[1], a[2]) /\ UNCHANGED searchManager

\* fuzzySearch called on the index of any subset of three documents
SpecFuzzy == InitWith({"empty"}) /\ [][NextFuzzy]_vars

NextDebounce ==
    \/ \E b \in Builds : BuildSearchIndex(b)
    \/ BuildStep
    \/ \E q \in InputQueries : HandleSearchInput(q)
    \/ \E t \in searchManager.timers : SearchTimeoutFires(t)
    \/ PerformSearchFallback

\* configurations with a section whose file is not loaded when a search
\* starts: searchSection awaits loadSectionContent, and other tasks run
\* before searchAllTabs resolves
InitDebounce == InitWith({"mixed", "items"})

\* the application with the input events and timeouts of the search box
SpecDebounce == InitDebounce /\ [][NextDebounce]_vars

(***************************************************************************)
(* Properties                                                              *)
(***************************************************************************)
\* a step that runs no part of a build: a query call
QueryStep == pc' = pc /\ pos' = pos /\ log' = log

\* the references of a sequence of visits or of log entries
Refs(s) == [i \in DOMAIN s |-> s[i].ref]

\* fractions <<n, d>> with d > 0
FracLeq(x, y) == x[1] * y[2] <= y[1] * x[2]

\* the postings of a document
HasPosting(docId) ==
    \E e \in DOMAIN index : \E k \in DOMAIN index[e].matches :
        index[e].matches[k].docId = docId

\* C1: when isIndexed is false, or the query is empty or whitespace-only,
\* search, fuzzySearch and getSuggestions return the empty list and leave the
\* term index, the documents map and the counters unchanged.
C1_GuardedQueriesReturnEmpty ==
    [][\A q \in Queries :
          ((~isIndexed \/ \A i \in DOMAIN q : q[i] \in SpaceChars)
           /\ (Search(q) \/ FuzzySearch(q) \/ GetSuggestions(q)))
          => (last'.result = <<>> /\ indexState' = indexState)]_vars

\* C1 witness: a search for "loop" answered with the empty list while a
\* build has already stored postings of "loop" and isIndexed is still false
C1_Witness ==
    /\ ~isIndexed
    /\ Matches(index, Q_loop) # <<>>
    /\ last = Called("search", Q_loop, <<>>)

\* the number of loads that failed in invocation b
Failures(b) == Cardinality({ i \in DOMAIN log[b] : log[b][i].outcome = "failed" })

C3_ProgressNeverDecreases ==
    [][(\E b \in Builds : InFlight(b))
          => FracLeq(GetProgressIn(indexingProgress, totalDocuments),
                     GetProgressIn(indexingProgress', totalDocuments'))]_vars

\* the leaf document references under a group or child node, at any depth
RECURSIVE NodeLeafRefs(_, _)
NodeLeafRefs(node, path) ==
    { path \o <<F_items, k>> : k \in DOMAIN node.items }
    \cup UNION { NodeLeafRefs(node.children[c], path \o <<F_children, c>>) :
                   c \in DOMAIN node.children }

\* the leaf document references of a configuration tree: each section's
\* intro, its flat item list, and the items under its groups and children
LeafRefs(sections) ==
    UNION { (IF sections[i].intro # <<>> THEN { <<i, F_intro>> } ELSE {})
            \cup { <<i, F_items, k>> : k \in DOMAIN sections[i].items }
            \cup UNION { NodeLeafRefs(sections[i].groups[g], <<i, F_groups, g>>) :
                           g \in DOMAIN sections[i].groups }
            \cup UNION { NodeLeafRefs(sections[i].children[c], <<i, F_children, c>>) :
                           c \in DOMAIN sections[i].children }
          : i \in DOMAIN sections }

\* C4: a completed buildIndex run has attempted every leaf document
\* reference of the configuration tree exactly once.
C4_EveryLeafAttemptedOnce ==
    \A b \in Builds :
        pc[b] = "done" =>
            \A r \in LeafRefs(Configs[cfg]) :
                Cardinality({ i \in DOMAIN log[b] : log[b][i].ref = r }) = 1

\* C5: indexingProgress never exceeds totalDocuments.
C5_ProgressAtMostTotal == indexingProgress <= totalDocuments

\* C6: isIndexed is true only when no invocation has a document left to
\* attempt, and some invocation has completed after an indexDocument call
\* for every document reference of its walk.
C6_BuiltOnlyAfterAllAttempted ==
    isIndexed =>
        /\ \A b \in Builds : pc[b] \notin {"loadConfig", "walk"}
        /\ \E b \in Builds : pc[b] = "done" /\ Refs(log[b]) = Refs(WalkOf[cfg])

\* C6 witness: a completed build of two documents, one of which failed
C6_Witness ==
    /\ isIndexed
    /\ \E b \in Builds :
          /\ pc[b] = "done"
          /\ Len(log[b]) = 2
          /\ log[b][1].outcome = "failed"
          /\ log[b][2].outcome = "indexed"

\* C7: under any interleaving of buildIndex invocations and query calls, no
\* step of a build writes the term index or the documents map in a state
\* where isIndexed is true, and isIndexed is never true while an invocation
\* still has documents to index (a partially built index exposed as built).
C7_NoWriteWhileBuilt ==
    /\ [][(isIndexed /\ ~QueryStep) => (index' = index /\ documents' = documents)]_vars
    /\ [](isIndexed => \A b \in Builds : ~HasNext(b))

\* C8: buildIndex called while isIndexed is true returns at once: it loads
\* no configuration and no document, and leaves the index, the documents
\* map, isIndexed and the counters unchanged.
C8_BuildWhileBuiltIsNoOp ==
    /\ [][\A b \in Builds :
            (isIndexed /\ pc[b] = "idle" /\ pc'[b] # "idle")
            => (pc'[b] = "returned" /\ indexState' = indexState
                /\ pos' = pos /\ log' = log)]_vars
    /\ [][\A b \in Builds : pc[b] = "returned" => pc'[b] = "returned"]_vars
    /\ [](\A b \in Builds : pc[b] = "returned" => log[b] = <<>> /\ pos[b] = 0)

\* C8 witness: buildIndex has returned at once on a built, non-empty index
C8_Witness ==
    \E b \in Builds : pc[b] = "returned" /\ isIndexed /\ index # <<>>

\* the documents whose load failed in invocation b and did not succeed in it
FailedOnly(b) ==
    { log[b][i].docId : i \in { j \in DOMAIN log[b] : log[b][j].outcome = "failed" } }
    \ { log[b][i].docId : i \in { j \in DOMAIN log[b] : log[b][j].outcome = "indexed" } }

\* C9: a failed document load does not abort the build: the step leaves the
\* index, the documents map and indexingProgress unchanged and the walk goes
\* on; the failed document has no entry in documents and no postings; a
\* build that has started its walk ends with every reference attempted and
\* isIndexed true.  A build is aborted only by a rejected loadMainConfig or
\* by the walk itself throwing on a null item, never by a load.
C9_LoadFailureIsSkipped ==
    /\ [][\A b \in Builds :
            (Len(log'[b]) = Len(log[b]) + 1
             /\ log'[b][Len(log'[b])].outcome = "failed")
            => /\ index' = index /\ documents' = documents
               /\ indexingProgress' = indexingProgress
               /\ pc'[b] = "walk" /\ pos'[b] = pos[b] + 1]_vars
    /\ [](\A b \in Builds :
            /\ pc[b] \in {"walk", "done"} =>
                 \A d \in FailedOnly(b) : DocAt(documents, d) = 0 /\ ~HasPosting(d)
            /\ pc[b] = "failed" =>
                 log[b] = <<>> \/ Throws(WalkOf[cfg][pos[b]])
            /\ pc[b] = "done" => isIndexed /\ Refs(log[b]) = Refs(WalkOf[cfg]))

\* C9 witness: a completed build whose first load failed and whose second
\* document was indexed
C9_Witness ==
    \E b \in Builds :
        /\ pc[b] = "done" /\ isIndexed
        /\ Len(log[b]) = 2
        /\ log[b][1].outcome = "failed"
        /\ DocAt(documents, log[b][1].docId) = 0
        /\ log[b][2].outcome = "indexed"
        /\ DocAt(documents, log[b][2].docId) # 0

\* C10: search, fuzzySearch, getSuggestions, getDocument and getProgress are
\* pure reads: a query call leaves every posting list (postings and order),
\* the documents map, isIndexed and the counters as they were, so a later
\* search returns the same ordered result.
C10_QueriesArePureReads ==
    [][QueryStep =>
          /\ indexState' = indexState
          /\ \A q \in Queries :
                SearchIn(index', documents', isIndexed', q, DefaultMaxResults)
                  = SearchIn(index, documents, isIndexed, q, DefaultMaxResults)]_vars

\* the key of a posting within the posting list of its term
PostingKey(m) == <<m.docId, m.type, m.sectionIndex, m.itemIndex>>

\* s is a prefix of t
IsPrefix(s, t) == Len(s) <= Len(t) /\ SubSeq(t, 1, Len(s)) = s

\* C11: for each term the posting list holds at most one posting per
\* (docId, field type, sectionIndex, itemIndex) key, and each posting counts
\* its positions; an indexDocument step keeps every posting in its place and
\* only appends positions to it (count grows with them), also when the
\* document was indexed before.
C11_OnePostingPerKey ==
    /\ [](\A e \in DOMAIN index :
            LET ms == index[e].matches
            IN /\ \A j, k \in DOMAIN ms : PostingKey(ms[j]) = PostingKey(ms[k]) => j = k
               /\ \A k \in DOMAIN ms : ms[k].count = Len(ms[k].positions)
               /\ \A f \in DOMAIN index : index[f].term = index[e].term => f = e)
    /\ [][log' # log =>
            \A e \in DOMAIN index :
                /\ e \in DOMAIN index' /\ index'[e].term = index[e].term
                /\ \A k \in DOMAIN index[e].matches :
                      /\ k \in DOMAIN index'[e].matches
                      /\ PostingKey(index'[e].matches[k]) = PostingKey(index[e].matches[k])
                      /\ IsPrefix(index[e].matches[k].positions,
                                  index'[e].matches[k].positions)]_vars

\* C11 witness: the document d4 (title "Go go") was indexed twice in one
\* build, and the term "go" has one title posting of d4 with count 4
C11_Witness ==
    /\ \E b \in Builds : Len(log[b]) = 2 /\ log[b][1].outcome = "indexed"
                                          /\ log[b][2].outcome = "indexed"
    /\ Len(Matches(index, T_go)) = 1
    /\ Matches(index, T_go)[1].docId = Id_d4
    /\ Matches(index, T_go)[1].count = 4
    /\ Matches(index, T_go)[1].positions = <<0, 1, 0, 1>>

\* the weight table of the field extractor
FieldWeights ==
    { <<"title", 10>>, <<"section-title", 8>>, <<"code-label", 5>>,
      <<"list-item", 4>>, <<"content", 3>> }

\* C12: after a build, every posting's (field type, weight) pair is one of
\* title/10, section-title/8, code-label/5, list-item/4, content/3: no
\* posting comes from the code body of a block or of a code tab.
C12_OnlyTableFieldsIndexed ==
    isIndexed =>
    \A e \in DOMAIN index : \A k \in DOMAIN index[e].matches :
        <<index[e].matches[k].type, index[e].matches[k].weight>> \in FieldWeights

\* C13: every key of the term index is a token of at least 2 characters,
\* all of them word characters and none an uppercase letter, whatever texts
\* addTerm was called with.
C13_TermsAreLowercaseWords ==
    \A e \in DOMAIN index :
        /\ Len(index[e].term) >= 2
        /\ \A i \in DOMAIN index[e].term :
              /\ IsWordChar(index[e].term[i])
              /\ index[e].term[i] \notin Range(UpperChars)

\* C13 witness: addTerm calls on texts such as "<Ab" and "bA>", whose only
\* letters are "A" and "b", have stored the terms "ab" and then "ba"
C13_Witness ==
    /\ Len(index) = 2
    /\ index[1].term = <<"a", "b">>
    /\ index[2].term = <<"b", "a">>

\* the content of an indexed document, as indexDocument obtained it
DocDataOf(meta) ==
    IF meta.id \in DOMAIN TabData THEN TabData[meta.id] ELSE ContentFiles[meta.path]

\* the texts of the fields of a document that indexDocumentContent reads
FieldTexts(docData) == { DocFields(docData)[k].text : k \in DOMAIN DocFields(docData) }

\* the other documents of the corpus
Others(d) == { o \in DOMAIN documents : documents[o].id # documents[d].id }

\* C14, as stated: for a built index and a document D whose title contains a
\* substring S of length >= 2 that occurs in no other document, search(S)
\* returns a non-empty list whose first element is D.
C14_TitleSubstringRanksFirst ==
    isIndexed =>
    \A d \in DOMAIN documents : \A S \in Queries :
        (/\ Len(S) >= 2
         /\ Includes(DocDataOf(documents[d]).title, S)
         /\ \A o \in Others(d) : \A t \in FieldTexts(DocDataOf(documents[o])) :
               ~Includes(t, S))
        => LET r == SearchIn(index, documents, isIndexed, S, DefaultMaxResults)
           IN r # <<>> /\ r[1].docId = documents[d].id

\* C14, amended: for a built index and a document D whose title has a token
\* S of length >= 2 that is a token of no indexed field of another document,
\* search(S) returns the one-element list [D].
C14_TitleTokenRanksFirst ==
    isIndexed =>
    \A d \in DOMAIN documents :
        \A S \in Range(Tokenize(DocDataOf(documents[d]).title)) :
            (/\ Len(S) >= 2
             /\ \A o \in Others(d) : \A t \in FieldTexts(DocDataOf(documents[o])) :
                   S \notin Range(Tokenize(t)))
            => LET r == SearchIn(index, documents, isIndexed, S, DefaultMaxResults)
               IN Len(r) = 1 /\ r[1].docId = documents[d].id

\* C14 witness: over the two documents of Scenario A, search("Loops"), a
\* token of the title of Doc1 only, has returned [Doc1]
C14_Witness ==
    /\ isIndexed /\ Len(documents) = 2
    /\ last.op = "search" /\ last.arg = Q_loops
    /\ Len(last.result) = 1 /\ last.result[1].docId = Id_doc1

\* the built corpus of Scenario A: Doc1 and Doc2, both loaded
ScenarioABuilt ==
    /\ cfg = "scenarioA" /\ isIndexed
    /\ { documents[d].id : d \in DOMAIN documents } = {Id_doc1, Id_doc2}

\* the field types of the matches of a result
MatchTypes(result) == { result.matches[k].type : k \in DOMAIN result.matches }

\* C15, as stated: over Scenario A search("loop") returns [Doc1] with a title
\* match and a content match; search("loops") returns nothing, and the fuzzy
\* fallback returns [Doc1] with a lower score than search("loop") gave it.
C15_ScenarioAAsStated ==
    ScenarioABuilt =>
    LET loop  == SearchIn(index, documents, isIndexed, Q_loop, DefaultMaxResults)
        loops == SearchIn(index, documents, isIndexed, Q_loopsLower, DefaultMaxResults)
        fuzzy == FuzzySearchIn(index, documents, isIndexed, Q_loopsLower,
                               DefaultMaxResults, DefaultMaxDistance)
    IN /\ Len(loop) = 1 /\ loop[1].docId = Id_doc1
       /\ MatchTypes(loop[1]) = {"title", "content"}
       /\ loops = <<>>
       /\ Len(fuzzy) = 1 /\ fuzzy[1].docId = Id_doc1
       /\ fuzzy[1].score < loop[1].score

\* C15, amended: over Scenario A search("loop") returns [Doc1] with one
\* content match and score 3 * ln 2; search("loops") returns [Doc1] with one
\* title match and score 10 * ln 2; fuzzySearch("loops") returns that exact
\* result without any fuzzy match, with a higher score than search("loop").
C15_ScenarioAExactMatches ==
    ScenarioABuilt =>
    LET loop  == SearchIn(index, documents, isIndexed, Q_loop, DefaultMaxResults)
        loops == SearchIn(index, documents, isIndexed, Q_loopsLower, DefaultMaxResults)
        fuzzy == FuzzySearchIn(index, documents, isIndexed, Q_loopsLower,
                               DefaultMaxResults, DefaultMaxDistance)
    IN /\ Len(loop) = 1 /\ loop[1].docId = Id_doc1
       /\ Len(loop[1].matches) = 1 /\ MatchTypes(loop[1]) = {"content"}
       /\ loop[1].score = 3 * LnTable[2]
       /\ Len(loops) = 1 /\ loops[1].docId = Id_doc1
       /\ Len(loops[1].matches) = 1 /\ MatchTypes(loops[1]) = {"title"}
       /\ loops[1].score = 10 * LnTable[2]
       /\ fuzzy = loops
       /\ \A k \in DOMAIN fuzzy[1].matches : ~fuzzy[1].matches[k].fuzzy
       /\ fuzzy[1].score > loop[1].score

\* C15 witness: over the built Scenario A, fuzzySearch("loops") has returned
\* [Doc1] with the score of the exact title match
C15_Witness ==
    /\ ScenarioABuilt
    /\ last.op = "fuzzySearch" /\ last.arg = Q_loopsLower
    /\ Len(last.result) = 1 /\ last.result[1].docId = Id_doc1
    /\ last.result[1].score = 10 * LnTable[2]

\* C16: edit-distance matching contributes only when the exact search is
\* empty: in every state fuzzySearch(q, n, d) returns search(q, n) whenever
\* that is not empty, and a performSearch call that uses the index calls
\* search first and fuzzySearch only after search returned no result.
C16_FuzzyOnlyWhenExactEmpty ==
    /\ [](\A q \in Queries : \A n \in {1, DefaultMaxResults} :
           LET exact == SearchIn(index, documents, isIndexed, q, n)
           IN exact # <<>> =>
                \A d \in {0, DefaultMaxDistance} :
                    FuzzySearchIn(index, documents, isIndexed, q, n, d) = exact)
    /\ [][(last' # last /\ last'.op = "performSearch" /\ last'.result # <<>>) =>
            LET calls == last'.result
                exact == SearchIn(index, documents, isIndexed, last'.arg,
                                  PerformMaxResults)
            IN /\ calls[1] = Called("search", last'.arg, exact)
               /\ IF exact = <<>>
                  THEN /\ Len(calls) = 2
                       /\ calls[2] = Called("fuzzySearch", last'.arg,
                                            FuzzySearchIn(index, documents, isIndexed,
                                                          last'.arg,
                                                          PerformFuzzyMaxResults,
                                                          PerformFuzzyMaxDistance))
                  ELSE Len(calls) = 1]_vars

\* C16 witness: performSearch found no exact result, called fuzzySearch and
\* got a fuzzy result from it
C16_Witness ==
    /\ last.op = "performSearch"
    /\ Len(last.result) = 2
    /\ last.result[1].op = "search" /\ last.result[1].result = <<>>
    /\ last.result[2].op = "fuzzySearch" /\ last.result[2].result # <<>>
    /\ searchManager.searchResults # <<>>

\* C17: no fuzzy match outranks an exact match: for every posting of a built
\* index and every distance >= 1 the fuzzy search accepts, the posting's
\* fuzzy contribution weight * (1 / (distance + 1)) * 0.5 is strictly lower
\* than its exact contribution weight * count * idf(term).
C17_FuzzyBelowExact ==
    isIndexed =>
    \A e \in DOMAIN index : \A k \in DOMAIN index[e].matches :
        \A distance \in 1..DefaultMaxDistance :
            LET m == index[e].matches[k]
            IN (m.weight * (Scale \div (distance + 1))) \div 2
                 < m.weight * m.count * CalculateIDF(index, documents, index[e].term)

\* the documents with a posting of some token of the query
CandidateIds(query) ==
    UNION { { index[e].matches[k].docId : k \in DOMAIN index[e].matches } :
              e \in { f \in DOMAIN index : index[f].term \in Range(Tokenize(query)) } }

\* C18: on a built index, for every query and every maxResults >= 0 the list
\* search returns is sorted by score in non-increasing order, holds each
\* docId at most once and at most maxResults elements, and these are
\* candidates no candidate left out scores higher than: search with
\* maxResults = n returns the first n elements of the full list.
C18_SortedDistinctTopResults ==
    isIndexed =>
    \A q \in Queries :
        LET cands == IF QueryGuard(isIndexed, q) THEN {} ELSE CandidateIds(q)
            all   == SearchIn(index, documents, isIndexed, q, Cardinality(cands))
        IN /\ Len(all) = Cardinality(cands)
           /\ { all[i].docId : i \in DOMAIN all } = cands
           /\ \A n \in MaxResultsArgs \cup {DefaultMaxResults} :
                 LET r == SearchIn(index, documents, isIndexed, q, n)
                 IN /\ Len(r) = IF n < Cardinality(cands) THEN n ELSE Cardinality(cands)
                    /\ \A i, j \in DOMAIN r :
                          /\ i < j => r[i].score >= r[j].score
                          /\ r[i].docId = r[j].docId => i = j
                    /\ \A i \in DOMAIN r : r[i].docId \in cands
                    /\ \A i \in DOMAIN r : \A c \in DOMAIN all :
                          (\A j \in DOMAIN r : r[j].docId # all[c].docId)
                          => all[c].score <= r[i].score
                    /\ \A i \in DOMAIN r : \E c \in DOMAIN all : all[c] = r[i]

\* C18 witness: search("loop for", 1) over d1 and d2, both candidates, has
\* returned d2 alone, the one with the higher score
C18_Witness ==
    /\ isIndexed
    /\ CandidateIds(Q_loopfor) = {Id_d1, Id_d2}
    /\ last.op = "search(query, maxResults)" /\ last.arg = <<Q_loopfor, 1>>
    /\ Len(last.result) = 1
    /\ last.result[1].docId = Id_d2
    /\ last.result[1].score = 8 * LnTable[2]

\* document d is the document of a highest-weight posting of a term that
\* strictly extends the prefix
TopOfExtendingTerm(d, prefix) ==
    \E e \in DOMAIN index :
        /\ ExtendsPrefix(index[e].term, prefix)
        /\ \E k \in DOMAIN index[e].matches :
              /\ index[e].matches[k].docId = documents[d].id
              /\ \A j \in DOMAIN index[e].matches :
                    index[e].matches[j].weight <= index[e].matches[k].weight

\* C19: on a built index with a non-blank prefix, getSuggestions(prefix, max)
\* returns at most max pairwise distinct strings, each the title of an
\* indexed document that contains the lowercased prefix or is the document
\* of the highest-weight posting of a term that strictly extends the prefix;
\* over Scenario A, getSuggestions("fun", 10) contains "Functions Basics".
C19_SuggestionsAreMatchingTitles ==
    isIndexed =>
    /\ \A q \in { p \in Queries : ~IsBlank(p) } :
          \A max \in MaxResultsArgs \cup {DefaultMaxSuggestions} :
            LET r == GetSuggestionsIn(index, documents, isIndexed, q, max)
            IN /\ Len(r) <= max
               /\ \A i, j \in DOMAIN r : r[i] = r[j] => i = j
               /\ \A i \in DOMAIN r :
                     \E d \in DOMAIN documents :
                         /\ documents[d].title = r[i]
                         /\ \/ Includes(ToLowerCase(documents[d].title), ToLowerCase(q))
                            \/ TopOfExtendingTerm(d, ToLowerCase(q))
    /\ ScenarioABuilt =>
          \E i \in DOMAIN GetSuggestionsIn(index, documents, isIndexed, Q_fun, 10) :
              GetSuggestionsIn(index, documents, isIndexed, Q_fun, 10)[i] = T_doc2title

\* C19 witness: over the built Scenario A, getSuggestions("fun") has returned
\* the one suggestion "Functions Basics"
C19_Witness ==
    /\ ScenarioABuilt
    /\ last = Called("getSuggestions", Q_fun, << T_doc2title >>)

\* the edit distance by its recurrence: the least number of insertions,
\* deletions and substitutions, each of cost 1, that turn a into b
RECURSIVE EditDistance(_, _)
EditDistance(a, b) ==
    IF a = <<>> THEN Len(b)
    ELSE IF b = <<>> THEN Len(a)
    ELSE LET del == EditDistance(Tail(a), b) + 1
             ins == EditDistance(a, Tail(b)) + 1
             sub == EditDistance(Tail(a), Tail(b)) + (IF Head(a) = Head(b) THEN 0 ELSE 1)
         IN IF del <= ins /\ del <= sub THEN del
            ELSE IF ins <= sub THEN ins ELSE sub

\* C20: levenshteinDistance(a, b) is the edit distance of a and b for all
\* strings within the bounds; distance(x, x) = 0, distance(a, b) =
\* distance(b, a), and distance("kitten", "sitting") = 3.
C20_LevenshteinIsEditDistance ==
    last.op = "levenshteinDistance" =>
        LET a == last.arg[1]
            b == last.arg[2]
        IN /\ (a \in ShortStrings /\ b \in ShortStrings) => last.result = EditDistance(a, b)
           /\ a = b => last.result = 0
           /\ last.result = LevenshteinDistance(b, a)
           /\ (a = T_kitten /\ b = T_sitting) => last.result = 3

\* C20 witness: levenshteinDistance("kitten", "sitting") has returned 3
C20_Witness == last = Called("levenshteinDistance", <<T_kitten, T_sitting>>, 3)

\* the score search gives each returned document
ScoresOf(results) == { <<results[k].docId, results[k].score>> : k \in DOMAIN results }

\* the leaves a build has indexed, and the same leaves in one fixed order
IndexedLeaves == { leaf \in OrderLeaves : \E i \in DOMAIN log[1] : log[1][i].docId = leaf.id }
FixedOrder == IndexAll(SeqOf(IndexedLeaves), [index |-> <<>>, documents |-> <<>>])

\* C21: whatever the order in which a build has indexed a set of documents,
\* every query gives each document the same score, and returns the same set
\* of documents, as over the index built from the same documents in one
\* fixed order; the search the caller runs returns these scores.
C21_ScoresIndependentOfOrder ==
    LET fixed == FixedOrder
    IN /\ \A q \in OrderQueries :
             ScoresOf(SearchIn(index, documents, TRUE, q, DefaultMaxResults))
               = ScoresOf(SearchIn(fixed.index, fixed.documents, TRUE, q,
                                   DefaultMaxResults))
       /\ (last.op = "search" /\ last.result # <<>>)
             => ScoresOf(last.result)
                  = ScoresOf(SearchIn(fixed.index, fixed.documents, TRUE,
                                      last.arg, DefaultMaxResults))

\* C21 witness: three documents were indexed in an order that is not the
\* fixed one, and a search has returned two of them with different scores
C21_Witness ==
    /\ isIndexed
    /\ Len(log[1]) = 3
    /\ [i \in DOMAIN log[1] |-> log[1][i].docId]
         # [i \in 1..Cardinality(IndexedLeaves) |-> SeqOf(IndexedLeaves)[i].id]
    /\ index # FixedOrder.index
    /\ last.op = "search"
    /\ Len(last.result) = 2
    /\ last.result[1].score > last.result[2].score

\* the terms the index holds and the tokens of the queries
IndexTerms == { index[e].term : e \in DOMAIN index }
QueryTokens == UNION { Range(Tokenize(q)) : q \in Queries }

\* the documents that have a posting of a term
DocsContaining(term) ==
    { m.docId : m \in UNION { Range(index[e].matches) :
                                e \in { x \in DOMAIN index : index[x].term = term } } }

\* ln(total / containing) with the two guards of the specification
IdfOver(total, containing) ==
    IF containing = 0 THEN Scale
    ELSE IF total = 0 THEN 0
    ELSE LogRatio(total, containing)

C23_IdfNonIncreasing ==
    /\ \A t1, t2 \in IndexTerms :
          Cardinality(DocsContaining(t1)) <= Cardinality(DocsContaining(t2))
            => CalculateIDF(index, documents, t1) >= CalculateIDF(index, documents, t2)
    /\ \A t \in IndexTerms :
          Cardinality(DocsContaining(t)) = Len(documents)
            => CalculateIDF(index, documents, t) = 0
    /\ (last.op = "search" /\ Len(Tokenize(last.arg)) = 1
          /\ Cardinality(DocsContaining(Tokenize(last.arg)[1])) = Len(documents))
         => \A r \in DOMAIN last.result :
               /\ last.result[r].score = 0
               /\ \A m \in DOMAIN last.result[r].matches :
                     last.result[r].matches[m].termScore = 0

\* C23 witness: three documents all contain "loop", one of them in its
\* title (weight 10); other terms occur in one and in two of them; and
\* search("loop") has returned the three documents with score 0
C23_Witness ==
    /\ Len(documents) = 3
    /\ \E t1, t2 \in IndexTerms :
          /\ Cardinality(DocsContaining(t1)) = 1
          /\ Cardinality(DocsContaining(t2)) = 2
          /\ CalculateIDF(index, documents, t1) > CalculateIDF(index, documents, t2)
          /\ CalculateIDF(index, documents, t2) > 0
    /\ last.op = "search"
    /\ last.arg = Q_loop
    /\ Len(last.result) = 3
    /\ \A r \in DOMAIN last.result : last.result[r].score = 0
    /\ \E r \in DOMAIN last.result : \E m \in DOMAIN last.result[r].matches :
          last.result[r].matches[m].weight = 10

\* the postings of a term for a document, in the order of the posting list
PostingsFor(term, d) ==
    Concat([e \in DOMAIN index |->
        IF index[e].term = term
        THEN Concat([k \in DOMAIN index[e].matches |->
                       IF index[e].matches[k].docId = d
                       THEN << index[e].matches[k] >> ELSE <<>>])
        ELSE <<>>])

\* ln(documents.size / documents containing the term)
IdfOfTerm(term) ==
    IF DocsContaining(term) = {} THEN Scale
    ELSE LnTable[Len(documents)] - LnTable[Cardinality(DocsContaining(term))]

\* the sum over the tokens and over the postings of the document
SumOfTermScores(tokens, d) ==
    SumSeq([i \in DOMAIN tokens |->
        SumSeq([k \in DOMAIN PostingsFor(tokens[i], d) |->
            PostingsFor(tokens[i], d)[k].weight * PostingsFor(tokens[i], d)[k].count
              * IdfOfTerm(tokens[i])])])

\* the field type and the positions of every posting the sum runs over
ContributingFields(tokens, d) ==
    Concat([i \in DOMAIN tokens |->
        [k \in DOMAIN PostingsFor(tokens[i], d) |->
            <<PostingsFor(tokens[i], d)[k].type, PostingsFor(tokens[i], d)[k].positions>>]])

\* C24: on a built index, for every query, the score of each returned
\* document is the sum over the query's tokens, repeated tokens included,
\* and over the token's postings for the document, of weight * count * idf,
\* and the result's matches hold one entry per such posting, with the
\* posting's field type and positions.
C24_ScoreIsSumOfTermScores ==
    isIndexed =>
      \A q \in OrderQueries :
         LET results == SearchIn(index, documents, isIndexed, q, DefaultMaxResults)
         IN \A r \in DOMAIN results :
               /\ results[r].score = SumOfTermScores(Tokenize(q), results[r].docId)
               /\ [m \in DOMAIN results[r].matches |->
                     <<results[r].matches[m].type, results[r].matches[m].positions>>]
                    = ContributingFields(Tokenize(q), results[r].docId)

\* C24 witness: search("go Go") has returned the document titled "Go go"
\* with two matches of its one title posting (positions 0 and 1, count 2),
\* each worth 10 * 2 * idf("go") > 0, and a score of twice that
C24_Witness ==
    /\ isIndexed
    /\ last.op = "search"
    /\ last.arg = Q_gogo
    /\ \E r \in DOMAIN last.result :
          /\ last.result[r].docId = Id_d4
          /\ Len(last.result[r].matches) = 2
          /\ last.result[r].matches[1].positions = <<0, 1>>
          /\ last.result[r].matches[1].termScore = 10 * 2 * IdfOfTerm(T_go)
          /\ last.result[r].matches[1].termScore > 0
          /\ last.result[r].score = 2 * last.result[r].matches[1].termScore

\* the terms the fuzzy pass accepts for a query
AcceptedTerms(query, maxDistance) ==
    { t \in IndexTerms :
        /\ LevenshteinDistance(ToLowerCase(query), t) <= maxDistance
        /\ LevenshteinDistance(ToLowerCase(query), t) < Len(t) }

\* weight * (1 / (distance + 1)) * 0.5, summed over the postings of the
\* accepted terms for a document
FuzzyScoreOf(query, maxDistance, d) ==
    LET terms == SeqOf(AcceptedTerms(query, maxDistance))
    IN SumSeq([i \in DOMAIN terms |->
          SumSeq([k \in DOMAIN PostingsFor(terms[i], d) |->
             (PostingsFor(terms[i], d)[k].weight
                * (Scale \div (LevenshteinDistance(ToLowerCase(query), terms[i]) + 1)))
               \div 2])])

\* the documents with a posting of an accepted term
FuzzyCandidates(query, maxDistance) ==
    UNION { DocsContaining(t) : t \in AcceptedTerms(query, maxDistance) }

\* the arguments fuzzySearch is called with
AllFuzzyArgs == FuzzyArgs \cup { <<DefaultMaxResults, DefaultMaxDistance>> }

\* C25: on a built index, when the exact search of a non-blank query is
\* empty, fuzzySearch returns documents that have a posting of an accepted
\* term (distance from the lowercased query <= maxDistance and < the term's
\* length), each once, with the sum of
\* weight * (1 / (distance + 1)) * 0.5 over those postings as score, by
\* descending score, min(maxResults, number of such documents) of them, and
\* no document left out scores higher than one returned.
C25_FuzzyFallbackScores ==
    isIndexed =>
      \A q \in OrderQueries : \A a \in AllFuzzyArgs :
         (~QueryGuard(isIndexed, q)
            /\ SearchIn(index, documents, isIndexed, q, a[1]) = <<>>) =>
            LET results == FuzzySearchIn(index, documents, isIndexed, q, a[1], a[2])
                cands == FuzzyCandidates(q, a[2])
                n == Cardinality(cands)
                expected == [d \in cands |-> FuzzyScoreOf(q, a[2], d)]
            IN /\ Len(results) = IF a[1] < n THEN a[1] ELSE n
               /\ \A r \in DOMAIN results :
                     /\ results[r].docId \in cands
                     /\ results[r].score = expected[results[r].docId]
               /\ \A r, s \in DOMAIN results :
                     r < s => /\ results[r].docId # results[s].docId
                              /\ results[r].score >= results[s].score
               /\ \A d \in cands :
                     (\A r \in DOMAIN results : results[r].docId # d)
                       => \A r \in DOMAIN results :
                             results[r].score >= expected[d]

\* C25 witness: fuzzySearch("lo", 1, 2) has returned one of two
\* candidate documents; "go" (distance 1) is accepted and "of" (distance 2,
\* length 2) is rejected although its distance is within maxDistance
C25_Witness ==
    /\ isIndexed
    /\ last.op = "fuzzySearch(query, maxResults, maxDistance)"
    /\ last.arg = <<Q_lo, 1, 2>>
    /\ Len(last.result) = 1
    /\ last.result[1].matches[1].fuzzy
    /\ Cardinality(FuzzyCandidates(Q_lo, 2)) = 2
    /\ T_go \in AcceptedTerms(Q_lo, 2)
    /\ <<"o","f">> \in IndexTerms
    /\ <<"o","f">> \notin AcceptedTerms(Q_lo, 2)
    /\ last.result[1].score = FuzzyScoreOf(Q_lo, 2, last.result[1].docId)

\* the keys of the documents map
DocumentKeys == { documents[i].id : i \in DOMAIN documents }

\* C26: in every state of the application's builds, the docId of every
\* posting is a key of the documents map; so no term has more distinct
\* documents than documents.size, every idf is >= 0, and every score and
\* termScore search returns is >= 0.
C26_PostingsReferToDocuments ==
    /\ \A e \in DOMAIN index : \A k \in DOMAIN index[e].matches :
          index[e].matches[k].docId \in DocumentKeys
    /\ \A t \in IndexTerms : Cardinality(DocsContaining(t)) <= Len(documents)
    /\ \A t \in IndexTerms \cup QueryTokens : CalculateIDF(index, documents, t) >= 0
    /\ \A q \in Queries :
          LET results == SearchIn(index, documents, isIndexed, q, DefaultMaxResults)
          IN \A r \in DOMAIN results :
                /\ results[r].score >= 0
                /\ results[r].docId \in DocumentKeys
                /\ \A m \in DOMAIN results[r].matches :
                      results[r].matches[m].termScore >= 0

\* C26 witness: a build has stored two documents; one term occurs in both
\* (idf 0), and a search has returned a document with a score above 0
C26_Witness ==
    /\ isIndexed
    /\ Len(documents) = 2
    /\ \E t \in IndexTerms : DocsContaining(t) = DocumentKeys
    /\ last.op = "search"
    /\ Len(last.result) > 0
    /\ last.result[1].score > 0
    /\ last.result[1].docId \in DocumentKeys

\* the documents with a posting of at least one token of the query
DocsWithAnyToken(query) == UNION { DocsContaining(t) : t \in Range(Tokenize(query)) }

\* C27: on a built index, for a non-blank query and a maxResults that does
\* not truncate, the docIds search returns are exactly the documents that
\* have a posting of at least one token of the query, each once, whatever
\* their score; the search the caller has run returned exactly these.
C27_AnyTokenSemantics ==
    isIndexed =>
      /\ \A q \in OrderQueries :
            LET results == SearchIn(index, documents, isIndexed, q, DefaultMaxResults)
            IN /\ { results[r].docId : r \in DOMAIN results }
                    = IF QueryGuard(isIndexed, q) THEN {} ELSE DocsWithAnyToken(q)
               /\ \A r, s \in DOMAIN results :
                     r # s => results[r].docId # results[s].docId
      /\ (last.op = "search" /\ last.result # <<>>)
            => { last.result[r].docId : r \in DOMAIN last.result }
                 = DocsWithAnyToken(last.arg)

\* C27 witness: every one of three documents contains "loop" and two of
\* them contain "for"; search("loop for") has returned the three, the one
\* without "for" with score 0
C27_Witness ==
    /\ isIndexed
    /\ Len(documents) = 3
    /\ last.op = "search"
    /\ last.arg = Q_loopfor
    /\ Len(last.result) = 3
    /\ last.result[1].score > 0
    /\ \E r \in DOMAIN last.result :
          /\ last.result[r].score = 0
          /\ PostingsFor(<<"f","o","r">>, last.result[r].docId) = <<>>
          /\ PostingsFor(<<"l","o","o","p">>, last.result[r].docId) # <<>>

\* a build that ended in the catch of buildIndex
Caught(b) == pc[b] = "failed"

\* C28: when loadMainConfig rejects or an error escapes the walk, the build
\* ends in the catch with isIndexed false and the application goes on; as
\* long as no build has succeeded, search, fuzzySearch and getSuggestions
\* return empty lists, whatever the walk has left in the index; and a
\* later buildIndex call, made while no build has succeeded since, passes
\* the guard and clears the index and the documents map.
C28_FailedBuildLeavesUnbuilt ==
    /\ [][\A b \in Builds :
            (~Caught(b) /\ Caught(b)')
              => /\ pc[b] \in {"loadConfig", "walk"}
                 /\ ~isIndexed'
                 /\ ~searchManager'.useIndex]_vars
    /\ []((\E b \in Builds : Caught(b)) /\ ~isIndexed
            => \A q \in Queries :
                  /\ SearchIn(index, documents, isIndexed, q, DefaultMaxResults) = <<>>
                  /\ FuzzySearchIn(index, documents, isIndexed, q, DefaultMaxResults,
                                   DefaultMaxDistance) = <<>>
                  /\ GetSuggestionsIn(index, documents, isIndexed, q,
                                      DefaultMaxSuggestions) = <<>>)
    /\ [][\A b \in Builds :
            ( /\ pc[b] = "idle" /\ pc'[b] # "idle"
              /\ \E c \in Builds : Caught(c)
              /\ ~isIndexed )
              => /\ pc'[b] = "loadConfig"
                 /\ index' = <<>>
                 /\ documents' = <<>>
                 /\ ~isIndexed']_vars

\* C28 witness: an error escaped the walk of the first build after it had
\* indexed a document, a search has returned the empty list, and the second
\* buildIndex call has started from an empty index and documents map
C28_Witness ==
    /\ cfg = "broken"
    /\ Caught(1)
    /\ Len(log[1]) = 1
    /\ log[1][1].outcome = "indexed"
    /\ ~isIndexed
    /\ last.op = "search"
    /\ last.arg = Q_loop
    /\ last.result = <<>>
    /\ pc[2] = "loadConfig"
    /\ index = <<>>
    /\ documents = <<>>

\* C29: search debounce. At most one search timeout is pending; a pending
\* timeout is the one the most recent handleSearchInput call set, for that
\* call's non-blank query, so every call has cancelled the timeout of the
\* call before it; after a call with a blank query (or one that only shows
\* suggestions) no timeout is pending; and a timeout that fires invokes
\* performSearch with the query of the most recent handleSearchInput call.
C29_SearchDebounce ==
    /\ Cardinality(searchManager.timers) <= 1
    /\ \A t \in searchManager.timers :
          /\ t.id = searchManager.searchTimeout
          /\ t.query = searchManager.currentSearchQuery
          /\ Trim(t.query) # <<>>
    /\ last.op = "handleSearchInput" =>
          /\ last.arg = searchManager.currentSearchQuery
          /\ Trim(last.arg) = <<>> => last.result = "hideResults"
          /\ searchManager.timers =
                IF last.result = "setTimeout"
                THEN {Timer(searchManager.searchTimeout, last.arg)}
                ELSE {}
    /\ last.op = "setTimeout callback" =>
          /\ last.arg = searchManager.currentSearchQuery
          /\ searchManager.timers = {}

\* two calls have set a timeout, no timeout has fired, and only the timeout
\* of the second call, for "loop", is pending
C29_Witness ==
    /\ \A b \in Builds : pc[b] = "idle"
    /\ searchManager.timerIds = 2
    /\ searchManager.searchQuery = <<>>
    /\ searchManager.timers = {Timer(2, Q_loop)}
    /\ last = Called("handleSearchInput", Q_loop, "setTimeout")

\* C30: once input has stopped (the timeout of the most recent
\* handleSearchInput call has fired, no timeout is pending and no
\* performSearch is in flight), searchResults holds the results of the query
\* that fired: a fired query is never dropped in favour of an older one.  The
\* results are those of searchAllTabs unless the callback searched the index.
C30_LatestFiredQueryWins ==
    ( /\ last.op = "setTimeout callback"
      /\ last.result # "index"
      /\ searchManager.timers = {}
      /\ ~searchManager.isSearching )
    => searchManager.searchResults = SearchAllTabs(Trim(ToLowerCase(last.arg)))

====
